---------------------------- MODULE Spec2Model ----------------------------
(***************************************************************************)
(* Resume leaderboard: the /api/leaderboard handler of Backend/app.py, its *)
(* per-resume pipeline _process_single_resume, and the ranking and summary *)
(* functions of Backend/Ranking.py.                                        *)
(*                                                                         *)
(* Representation.  A Python str that the code transforms or compares is a *)
(* sequence of code points (<<66, 111, 98>> is "Bob"); a dict is a         *)
(* function whose DOMAIN is its key set; None in the place of a str is the *)
(* value None below; a float score is an integer number of points;         *)
(* average_score is an integer number of 10^-4 points (round(_, 4)).  A    *)
(* list of dicts is a sequence of references into a store of dict objects, *)
(* so that a write to a dict shows at every place that refers to it.       *)
(***************************************************************************)
EXTENDS Integers, Sequences, FiniteSets, TLC

VARIABLES
    pc,             \* position of the leaderboard handler
    files,          \* request.files.getlist("resumes")
    names,          \* request.form.getlist("names")
    domain,         \* the domain label after .strip()
    valid_files,    \* the files that pass validation
    candidates,     \* the dicts the loop appends, in order: candidates[k] is the k-th
                    \* dict created, and the list `candidates` refers to dicts 1, 2, ...
    ranked,         \* <<the list get_domain_leaderboard returns>>, a sequence of
                    \* positions of candidates (the same dicts); <<>> while unbound
    summary,        \* <<build_leaderboard_summary's return value>>, <<>> while unbound
    response,       \* <<what the handler returns>>, <<>> before it returns
    process_log,    \* indices of valid_files handed to _process_single_resume, in order
    rank_log,       \* <<candidate index, rank>> for each assignment candidate["rank"] = rank
    arg,            \* argument of a direct call of one function (specifications of the parts)
    ret,            \* <<its result>>, <<>> before the call
    op              \* the function called, "none" before

vars == <<pc, files, names, domain, valid_files, candidates, ranked, summary,
          response, process_log, rank_log, arg, ret, op>>

handler_vars == <<pc, files, names, domain, valid_files, candidates, ranked,
                  summary, response, process_log, rank_log>>

call_vars == <<arg, ret, op>>

----------------------------------------------------------------------------
(* Bounds of the model *)

MaxFiles == 3
MaxNames == 2
MaxLen == 3

----------------------------------------------------------------------------
(* Python values *)

None == <<-1>>

EmptyDict == [k \in {} |-> 0]

\* d.get(key, default)
Get(d, key, default) == IF key \in DOMAIN d THEN d[key] ELSE default

\* d[key] = value, in place
SetItem(d, key, value) == (key :> value) @@ d

----------------------------------------------------------------------------
(* str methods, on code points 0..1114111.  The case tables are those of   *)
(* the interpreter's Unicode database (14.0).                              *)

\* <<first, last, step, offset>>: str.lower() adds offset to the code points
\* first, first + step, ..., last (code points from 128 on)
LowerRanges ==
    { <<192, 214, 1, 32>>, <<216, 222, 1, 32>>, <<256, 302, 2, 1>>,
      <<306, 310, 2, 1>>, <<313, 327, 2, 1>>, <<330, 374, 2, 1>>,
      <<376, 376, 1, -121>>, <<377, 381, 2, 1>>, <<385, 385, 1, 210>>,
      <<386, 388, 2, 1>>, <<390, 390, 1, 206>>, <<391, 391, 1, 1>>,
      <<393, 394, 1, 205>>, <<395, 395, 1, 1>>, <<398, 398, 1, 79>>,
      <<399, 399, 1, 202>>, <<400, 400, 1, 203>>, <<401, 401, 1, 1>>,
      <<403, 403, 1, 205>>, <<404, 404, 1, 207>>, <<406, 406, 1, 211>>,
      <<407, 407, 1, 209>>, <<408, 408, 1, 1>>, <<412, 412, 1, 211>>,
      <<413, 413, 1, 213>>, <<415, 415, 1, 214>>, <<416, 420, 2, 1>>,
      <<422, 422, 1, 218>>, <<423, 423, 1, 1>>, <<425, 425, 1, 218>>,
      <<428, 428, 1, 1>>, <<430, 430, 1, 218>>, <<431, 431, 1, 1>>,
      <<433, 434, 1, 217>>, <<435, 437, 2, 1>>, <<439, 439, 1, 219>>,
      <<440, 440, 1, 1>>, <<444, 444, 1, 1>>, <<452, 452, 1, 2>>,
      <<453, 453, 1, 1>>, <<455, 455, 1, 2>>, <<456, 456, 1, 1>>,
      <<458, 458, 1, 2>>, <<459, 475, 2, 1>>, <<478, 494, 2, 1>>,
      <<497, 497, 1, 2>>, <<498, 500, 2, 1>>, <<502, 502, 1, -97>>,
      <<503, 503, 1, -56>>, <<504, 542, 2, 1>>, <<544, 544, 1, -130>>,
      <<546, 562, 2, 1>>, <<570, 570, 1, 10795>>, <<571, 571, 1, 1>>,
      <<573, 573, 1, -163>>, <<574, 574, 1, 10792>>, <<577, 577, 1, 1>>,
      <<579, 579, 1, -195>>, <<580, 580, 1, 69>>, <<581, 581, 1, 71>>,
      <<582, 590, 2, 1>>, <<880, 882, 2, 1>>, <<886, 886, 1, 1>>,
      <<895, 895, 1, 116>>, <<902, 902, 1, 38>>, <<904, 906, 1, 37>>,
      <<908, 908, 1, 64>>, <<910, 911, 1, 63>>, <<913, 929, 1, 32>>,
      <<931, 939, 1, 32>>, <<975, 975, 1, 8>>, <<984, 1006, 2, 1>>,
      <<1012, 1012, 1, -60>>, <<1015, 1015, 1, 1>>, <<1017, 1017, 1, -7>>,
      <<1018, 1018, 1, 1>>, <<1021, 1023, 1, -130>>, <<1024, 1039, 1, 80>>,
      <<1040, 1071, 1, 32>>, <<1120, 1152, 2, 1>>, <<1162, 1214, 2, 1>>,
      <<1216, 1216, 1, 15>>, <<1217, 1229, 2, 1>>, <<1232, 1326, 2, 1>>,
      <<1329, 1366, 1, 48>>, <<4256, 4293, 1, 7264>>, <<4295, 4295, 1, 7264>>,
      <<4301, 4301, 1, 7264>>, <<5024, 5103, 1, 38864>>, <<5104, 5109, 1, 8>>,
      <<7312, 7354, 1, -3008>>, <<7357, 7359, 1, -3008>>,
      <<7680, 7828, 2, 1>>, <<7838, 7838, 1, -7615>>, <<7840, 7934, 2, 1>>,
      <<7944, 7951, 1, -8>>, <<7960, 7965, 1, -8>>, <<7976, 7983, 1, -8>>,
      <<7992, 7999, 1, -8>>, <<8008, 8013, 1, -8>>, <<8025, 8031, 2, -8>>,
      <<8040, 8047, 1, -8>>, <<8072, 8079, 1, -8>>, <<8088, 8095, 1, -8>>,
      <<8104, 8111, 1, -8>>, <<8120, 8121, 1, -8>>, <<8122, 8123, 1, -74>>,
      <<8124, 8124, 1, -9>>, <<8136, 8139, 1, -86>>, <<8140, 8140, 1, -9>>,
      <<8152, 8153, 1, -8>>, <<8154, 8155, 1, -100>>, <<8168, 8169, 1, -8>>,
      <<8170, 8171, 1, -112>>, <<8172, 8172, 1, -7>>, <<8184, 8185, 1, -128>>,
      <<8186, 8187, 1, -126>>, <<8188, 8188, 1, -9>>,
      <<8486, 8486, 1, -7517>>, <<8490, 8490, 1, -8383>>,
      <<8491, 8491, 1, -8262>>, <<8498, 8498, 1, 28>>, <<8544, 8559, 1, 16>>,
      <<8579, 8579, 1, 1>>, <<9398, 9423, 1, 26>>, <<11264, 11311, 1, 48>>,
      <<11360, 11360, 1, 1>>, <<11362, 11362, 1, -10743>>,
      <<11363, 11363, 1, -3814>>, <<11364, 11364, 1, -10727>>,
      <<11367, 11371, 2, 1>>, <<11373, 11373, 1, -10780>>,
      <<11374, 11374, 1, -10749>>, <<11375, 11375, 1, -10783>>,
      <<11376, 11376, 1, -10782>>, <<11378, 11378, 1, 1>>,
      <<11381, 11381, 1, 1>>, <<11390, 11391, 1, -10815>>,
      <<11392, 11490, 2, 1>>, <<11499, 11501, 2, 1>>, <<11506, 11506, 1, 1>>,
      <<42560, 42604, 2, 1>>, <<42624, 42650, 2, 1>>, <<42786, 42798, 2, 1>>,
      <<42802, 42862, 2, 1>>, <<42873, 42875, 2, 1>>,
      <<42877, 42877, 1, -35332>>, <<42878, 42886, 2, 1>>,
      <<42891, 42891, 1, 1>>, <<42893, 42893, 1, -42280>>,
      <<42896, 42898, 2, 1>>, <<42902, 42920, 2, 1>>,
      <<42922, 42922, 1, -42308>>, <<42923, 42923, 1, -42319>>,
      <<42924, 42924, 1, -42315>>, <<42925, 42925, 1, -42305>>,
      <<42926, 42926, 1, -42308>>, <<42928, 42928, 1, -42258>>,
      <<42929, 42929, 1, -42282>>, <<42930, 42930, 1, -42261>>,
      <<42931, 42931, 1, 928>>, <<42932, 42946, 2, 1>>,
      <<42948, 42948, 1, -48>>, <<42949, 42949, 1, -42307>>,
      <<42950, 42950, 1, -35384>>, <<42951, 42953, 2, 1>>,
      <<42960, 42960, 1, 1>>, <<42966, 42968, 2, 1>>, <<42997, 42997, 1, 1>>,
      <<65313, 65338, 1, 32>>, <<66560, 66599, 1, 40>>,
      <<66736, 66771, 1, 40>>, <<66928, 66938, 1, 39>>,
      <<66940, 66954, 1, 39>>, <<66956, 66962, 1, 39>>,
      <<66964, 66965, 1, 39>>, <<68736, 68786, 1, 64>>,
      <<71840, 71871, 1, 32>>, <<93760, 93791, 1, 32>>,
      <<125184, 125217, 1, 34>> }

\* <<first, last, step, offset>>: the title-case mapping, in the same form
TitleRanges ==
    { <<181, 181, 1, 743>>, <<224, 246, 1, -32>>, <<248, 254, 1, -32>>,
      <<255, 255, 1, 121>>, <<257, 303, 2, -1>>, <<305, 305, 1, -232>>,
      <<307, 311, 2, -1>>, <<314, 328, 2, -1>>, <<331, 375, 2, -1>>,
      <<378, 382, 2, -1>>, <<383, 383, 1, -300>>, <<384, 384, 1, 195>>,
      <<387, 389, 2, -1>>, <<392, 392, 1, -1>>, <<396, 396, 1, -1>>,
      <<402, 402, 1, -1>>, <<405, 405, 1, 97>>, <<409, 409, 1, -1>>,
      <<410, 410, 1, 163>>, <<414, 414, 1, 130>>, <<417, 421, 2, -1>>,
      <<424, 424, 1, -1>>, <<429, 429, 1, -1>>, <<432, 432, 1, -1>>,
      <<436, 438, 2, -1>>, <<441, 441, 1, -1>>, <<445, 445, 1, -1>>,
      <<447, 447, 1, 56>>, <<452, 452, 1, 1>>, <<454, 454, 1, -1>>,
      <<455, 455, 1, 1>>, <<457, 457, 1, -1>>, <<458, 458, 1, 1>>,
      <<460, 476, 2, -1>>, <<477, 477, 1, -79>>, <<479, 495, 2, -1>>,
      <<497, 497, 1, 1>>, <<499, 501, 2, -1>>, <<505, 543, 2, -1>>,
      <<547, 563, 2, -1>>, <<572, 572, 1, -1>>, <<575, 576, 1, 10815>>,
      <<578, 578, 1, -1>>, <<583, 591, 2, -1>>, <<592, 592, 1, 10783>>,
      <<593, 593, 1, 10780>>, <<594, 594, 1, 10782>>, <<595, 595, 1, -210>>,
      <<596, 596, 1, -206>>, <<598, 599, 1, -205>>, <<601, 601, 1, -202>>,
      <<603, 603, 1, -203>>, <<604, 604, 1, 42319>>, <<608, 608, 1, -205>>,
      <<609, 609, 1, 42315>>, <<611, 611, 1, -207>>, <<613, 613, 1, 42280>>,
      <<614, 614, 1, 42308>>, <<616, 616, 1, -209>>, <<617, 617, 1, -211>>,
      <<618, 618, 1, 42308>>, <<619, 619, 1, 10743>>, <<620, 620, 1, 42305>>,
      <<623, 623, 1, -211>>, <<625, 625, 1, 10749>>, <<626, 626, 1, -213>>,
      <<629, 629, 1, -214>>, <<637, 637, 1, 10727>>, <<640, 640, 1, -218>>,
      <<642, 642, 1, 42307>>, <<643, 643, 1, -218>>, <<647, 647, 1, 42282>>,
      <<648, 648, 1, -218>>, <<649, 649, 1, -69>>, <<650, 651, 1, -217>>,
      <<652, 652, 1, -71>>, <<658, 658, 1, -219>>, <<669, 669, 1, 42261>>,
      <<670, 670, 1, 42258>>, <<837, 837, 1, 84>>, <<881, 883, 2, -1>>,
      <<887, 887, 1, -1>>, <<891, 893, 1, 130>>, <<940, 940, 1, -38>>,
      <<941, 943, 1, -37>>, <<945, 961, 1, -32>>, <<962, 962, 1, -31>>,
      <<963, 971, 1, -32>>, <<972, 972, 1, -64>>, <<973, 974, 1, -63>>,
      <<976, 976, 1, -62>>, <<977, 977, 1, -57>>, <<981, 981, 1, -47>>,
      <<982, 982, 1, -54>>, <<983, 983, 1, -8>>, <<985, 1007, 2, -1>>,
      <<1008, 1008, 1, -86>>, <<1009, 1009, 1, -80>>, <<1010, 1010, 1, 7>>,
      <<1011, 1011, 1, -116>>, <<1013, 1013, 1, -96>>, <<1016, 1016, 1, -1>>,
      <<1019, 1019, 1, -1>>, <<1072, 1103, 1, -32>>, <<1104, 1119, 1, -80>>,
      <<1121, 1153, 2, -1>>, <<1163, 1215, 2, -1>>, <<1218, 1230, 2, -1>>,
      <<1231, 1231, 1, -15>>, <<1233, 1327, 2, -1>>, <<1377, 1414, 1, -48>>,
      <<5112, 5117, 1, -8>>, <<7296, 7296, 1, -6254>>,
      <<7297, 7297, 1, -6253>>, <<7298, 7298, 1, -6244>>,
      <<7299, 7300, 1, -6242>>, <<7301, 7301, 1, -6243>>,
      <<7302, 7302, 1, -6236>>, <<7303, 7303, 1, -6181>>,
      <<7304, 7304, 1, 35266>>, <<7545, 7545, 1, 35332>>,
      <<7549, 7549, 1, 3814>>, <<7566, 7566, 1, 35384>>,
      <<7681, 7829, 2, -1>>, <<7835, 7835, 1, -59>>, <<7841, 7935, 2, -1>>,
      <<7936, 7943, 1, 8>>, <<7952, 7957, 1, 8>>, <<7968, 7975, 1, 8>>,
      <<7984, 7991, 1, 8>>, <<8000, 8005, 1, 8>>, <<8017, 8023, 2, 8>>,
      <<8032, 8039, 1, 8>>, <<8048, 8049, 1, 74>>, <<8050, 8053, 1, 86>>,
      <<8054, 8055, 1, 100>>, <<8056, 8057, 1, 128>>, <<8058, 8059, 1, 112>>,
      <<8060, 8061, 1, 126>>, <<8064, 8071, 1, 8>>, <<8080, 8087, 1, 8>>,
      <<8096, 8103, 1, 8>>, <<8112, 8113, 1, 8>>, <<8115, 8115, 1, 9>>,
      <<8126, 8126, 1, -7205>>, <<8131, 8131, 1, 9>>, <<8144, 8145, 1, 8>>,
      <<8160, 8161, 1, 8>>, <<8165, 8165, 1, 7>>, <<8179, 8179, 1, 9>>,
      <<8526, 8526, 1, -28>>, <<8560, 8575, 1, -16>>, <<8580, 8580, 1, -1>>,
      <<9424, 9449, 1, -26>>, <<11312, 11359, 1, -48>>,
      <<11361, 11361, 1, -1>>, <<11365, 11365, 1, -10795>>,
      <<11366, 11366, 1, -10792>>, <<11368, 11372, 2, -1>>,
      <<11379, 11379, 1, -1>>, <<11382, 11382, 1, -1>>,
      <<11393, 11491, 2, -1>>, <<11500, 11502, 2, -1>>,
      <<11507, 11507, 1, -1>>, <<11520, 11557, 1, -7264>>,
      <<11559, 11559, 1, -7264>>, <<11565, 11565, 1, -7264>>,
      <<42561, 42605, 2, -1>>, <<42625, 42651, 2, -1>>,
      <<42787, 42799, 2, -1>>, <<42803, 42863, 2, -1>>,
      <<42874, 42876, 2, -1>>, <<42879, 42887, 2, -1>>,
      <<42892, 42892, 1, -1>>, <<42897, 42899, 2, -1>>,
      <<42900, 42900, 1, 48>>, <<42903, 42921, 2, -1>>,
      <<42933, 42947, 2, -1>>, <<42952, 42954, 2, -1>>,
      <<42961, 42961, 1, -1>>, <<42967, 42969, 2, -1>>,
      <<42998, 42998, 1, -1>>, <<43859, 43859, 1, -928>>,
      <<43888, 43967, 1, -38864>>, <<65345, 65370, 1, -32>>,
      <<66600, 66639, 1, -40>>, <<66776, 66811, 1, -40>>,
      <<66967, 66977, 1, -39>>, <<66979, 66993, 1, -39>>,
      <<66995, 67001, 1, -39>>, <<67003, 67004, 1, -39>>,
      <<68800, 68850, 1, -64>>, <<71872, 71903, 1, -32>>,
      <<93792, 93823, 1, -32>>, <<125218, 125251, 1, -34>> }

\* <<code point, its title-case form>> where that form has several code points
TitleSpecial ==
    { <<223, <<83, 115>>>>, <<329, <<700, 78>>>>, <<496, <<74, 780>>>>,
      <<912, <<921, 776, 769>>>>, <<944, <<933, 776, 769>>>>,
      <<1415, <<1333, 1410>>>>, <<7830, <<72, 817>>>>, <<7831, <<84, 776>>>>,
      <<7832, <<87, 778>>>>, <<7833, <<89, 778>>>>, <<7834, <<65, 702>>>>,
      <<8016, <<933, 787>>>>, <<8018, <<933, 787, 768>>>>,
      <<8020, <<933, 787, 769>>>>, <<8022, <<933, 787, 834>>>>,
      <<8114, <<8122, 837>>>>, <<8116, <<902, 837>>>>, <<8118, <<913, 834>>>>,
      <<8119, <<913, 834, 837>>>>, <<8130, <<8138, 837>>>>,
      <<8132, <<905, 837>>>>, <<8134, <<919, 834>>>>,
      <<8135, <<919, 834, 837>>>>, <<8146, <<921, 776, 768>>>>,
      <<8147, <<921, 776, 769>>>>, <<8150, <<921, 834>>>>,
      <<8151, <<921, 776, 834>>>>, <<8162, <<933, 776, 768>>>>,
      <<8163, <<933, 776, 769>>>>, <<8164, <<929, 787>>>>,
      <<8166, <<933, 834>>>>, <<8167, <<933, 776, 834>>>>,
      <<8178, <<8186, 837>>>>, <<8180, <<911, 837>>>>, <<8182, <<937, 834>>>>,
      <<8183, <<937, 834, 837>>>>, <<64256, <<70, 102>>>>,
      <<64257, <<70, 105>>>>, <<64258, <<70, 108>>>>,
      <<64259, <<70, 102, 105>>>>, <<64260, <<70, 102, 108>>>>,
      <<64261, <<83, 116>>>>, <<64262, <<83, 116>>>>,
      <<64275, <<1348, 1398>>>>, <<64276, <<1348, 1381>>>>,
      <<64277, <<1348, 1387>>>>, <<64278, <<1358, 1398>>>>,
      <<64279, <<1348, 1389>>>> }

\* <<first, last, step>>: the cased code points from 128 on
CasedRanges ==
    { <<170, 170, 1>>, <<181, 181, 1>>, <<186, 186, 1>>, <<192, 214, 1>>,
      <<216, 246, 1>>, <<248, 442, 1>>, <<444, 447, 1>>, <<452, 659, 1>>,
      <<661, 696, 1>>, <<704, 705, 1>>, <<736, 740, 1>>, <<837, 837, 1>>,
      <<880, 883, 1>>, <<886, 887, 1>>, <<890, 893, 1>>, <<895, 895, 1>>,
      <<902, 928, 2>>, <<905, 905, 1>>, <<911, 1153, 2>>, <<932, 1012, 2>>,
      <<1016, 1152, 2>>, <<1162, 1327, 1>>, <<1329, 1366, 1>>,
      <<1376, 1416, 1>>, <<4256, 4293, 1>>, <<4295, 4295, 1>>,
      <<4301, 4301, 1>>, <<4304, 4346, 1>>, <<4349, 4351, 1>>,
      <<5024, 5109, 1>>, <<5112, 5117, 1>>, <<7296, 7304, 1>>,
      <<7312, 7354, 1>>, <<7357, 7359, 1>>, <<7424, 7615, 1>>,
      <<7680, 7957, 1>>, <<7960, 7965, 1>>, <<7968, 8005, 1>>,
      <<8008, 8013, 1>>, <<8016, 8023, 1>>, <<8025, 8061, 2>>,
      <<8032, 8060, 2>>, <<8064, 8116, 1>>, <<8118, 8124, 1>>,
      <<8126, 8126, 1>>, <<8130, 8132, 1>>, <<8134, 8140, 1>>,
      <<8144, 8147, 1>>, <<8150, 8155, 1>>, <<8160, 8172, 1>>,
      <<8178, 8180, 1>>, <<8182, 8188, 1>>, <<8305, 8305, 1>>,
      <<8319, 8319, 1>>, <<8336, 8348, 1>>, <<8450, 8450, 1>>,
      <<8455, 8455, 1>>, <<8458, 8467, 1>>, <<8469, 8469, 1>>,
      <<8473, 8477, 1>>, <<8484, 8492, 2>>, <<8491, 8499, 2>>,
      <<8496, 8500, 2>>, <<8505, 8505, 1>>, <<8508, 8511, 1>>,
      <<8517, 8521, 1>>, <<8526, 8526, 1>>, <<8544, 8575, 1>>,
      <<8579, 8580, 1>>, <<9398, 9449, 1>>, <<11264, 11492, 1>>,
      <<11499, 11502, 1>>, <<11506, 11507, 1>>, <<11520, 11557, 1>>,
      <<11559, 11559, 1>>, <<11565, 11565, 1>>, <<42560, 42605, 1>>,
      <<42624, 42653, 1>>, <<42786, 42887, 1>>, <<42891, 42894, 1>>,
      <<42896, 42954, 1>>, <<42960, 42961, 1>>, <<42963, 42969, 2>>,
      <<42966, 42968, 2>>, <<42997, 42998, 1>>, <<43000, 43002, 1>>,
      <<43824, 43866, 1>>, <<43868, 43880, 1>>, <<43888, 43967, 1>>,
      <<64256, 64262, 1>>, <<64275, 64279, 1>>, <<65313, 65338, 1>>,
      <<65345, 65370, 1>>, <<66560, 66639, 1>>, <<66736, 66771, 1>>,
      <<66776, 66811, 1>>, <<66928, 66938, 1>>, <<66940, 66954, 1>>,
      <<66956, 66962, 1>>, <<66964, 66965, 1>>, <<66967, 66977, 1>>,
      <<66979, 66993, 1>>, <<66995, 67001, 1>>, <<67003, 67004, 1>>,
      <<67456, 67456, 1>>, <<67459, 67461, 1>>, <<67463, 67504, 1>>,
      <<67506, 67514, 1>>, <<68736, 68786, 1>>, <<68800, 68850, 1>>,
      <<71840, 71903, 1>>, <<93760, 93823, 1>>, <<119808, 119892, 1>>,
      <<119894, 119964, 1>>, <<119966, 119967, 1>>, <<119970, 119970, 1>>,
      <<119973, 119974, 1>>, <<119977, 119980, 1>>, <<119982, 119993, 1>>,
      <<119995, 120073, 2>>, <<119998, 120002, 2>>, <<120006, 120068, 2>>,
      <<120072, 120074, 2>>, <<120077, 120084, 1>>, <<120086, 120092, 1>>,
      <<120094, 120121, 1>>, <<120123, 120126, 1>>, <<120128, 120132, 1>>,
      <<120134, 120134, 1>>, <<120138, 120144, 1>>, <<120146, 120485, 1>>,
      <<120488, 120512, 1>>, <<120514, 120538, 1>>, <<120540, 120570, 1>>,
      <<120572, 120596, 1>>, <<120598, 120628, 1>>, <<120630, 120654, 1>>,
      <<120656, 120686, 1>>, <<120688, 120712, 1>>, <<120714, 120744, 1>>,
      <<120746, 120770, 1>>, <<120772, 120779, 1>>, <<122624, 122633, 1>>,
      <<122635, 122654, 1>>, <<125184, 125251, 1>>, <<127280, 127305, 1>>,
      <<127312, 127337, 1>>, <<127344, 127369, 1>> }

\* <<first, last, step>>: the case-ignorable code points from 128 on
CaseIgnorableRanges ==
    { <<168, 168, 1>>, <<173, 175, 2>>, <<180, 180, 1>>, <<183, 184, 1>>,
      <<688, 879, 1>>, <<884, 885, 1>>, <<890, 890, 1>>, <<900, 901, 1>>,
      <<903, 903, 1>>, <<1155, 1161, 1>>, <<1369, 1369, 1>>,
      <<1375, 1375, 1>>, <<1425, 1469, 1>>, <<1471, 1473, 2>>,
      <<1474, 1476, 2>>, <<1477, 1479, 2>>, <<1524, 1524, 1>>,
      <<1536, 1541, 1>>, <<1552, 1562, 1>>, <<1564, 1564, 1>>,
      <<1600, 1600, 1>>, <<1611, 1631, 1>>, <<1648, 1648, 1>>,
      <<1750, 1757, 1>>, <<1759, 1768, 1>>, <<1770, 1773, 1>>,
      <<1807, 1809, 2>>, <<1840, 1866, 1>>, <<1958, 1968, 1>>,
      <<2027, 2037, 1>>, <<2042, 2042, 1>>, <<2045, 2045, 1>>,
      <<2070, 2093, 1>>, <<2137, 2139, 1>>, <<2184, 2184, 1>>,
      <<2192, 2193, 1>>, <<2200, 2207, 1>>, <<2249, 2306, 1>>,
      <<2362, 2364, 2>>, <<2369, 2376, 1>>, <<2381, 2381, 1>>,
      <<2385, 2391, 1>>, <<2402, 2403, 1>>, <<2417, 2417, 1>>,
      <<2433, 2433, 1>>, <<2492, 2492, 1>>, <<2497, 2500, 1>>,
      <<2509, 2509, 1>>, <<2530, 2531, 1>>, <<2558, 2558, 1>>,
      <<2561, 2562, 1>>, <<2620, 2620, 1>>, <<2625, 2626, 1>>,
      <<2631, 2632, 1>>, <<2635, 2637, 1>>, <<2641, 2641, 1>>,
      <<2672, 2673, 1>>, <<2677, 2677, 1>>, <<2689, 2690, 1>>,
      <<2748, 2748, 1>>, <<2753, 2757, 1>>, <<2759, 2760, 1>>,
      <<2765, 2765, 1>>, <<2786, 2787, 1>>, <<2810, 2815, 1>>,
      <<2817, 2817, 1>>, <<2876, 2876, 1>>, <<2879, 2883, 2>>,
      <<2882, 2884, 2>>, <<2893, 2893, 1>>, <<2901, 2902, 1>>,
      <<2914, 2915, 1>>, <<2946, 2946, 1>>, <<3008, 3008, 1>>,
      <<3021, 3021, 1>>, <<3072, 3072, 1>>, <<3076, 3076, 1>>,
      <<3132, 3136, 2>>, <<3135, 3135, 1>>, <<3142, 3144, 1>>,
      <<3146, 3149, 1>>, <<3157, 3158, 1>>, <<3170, 3171, 1>>,
      <<3201, 3201, 1>>, <<3260, 3260, 1>>, <<3263, 3263, 1>>,
      <<3270, 3270, 1>>, <<3276, 3277, 1>>, <<3298, 3299, 1>>,
      <<3328, 3329, 1>>, <<3387, 3388, 1>>, <<3393, 3396, 1>>,
      <<3405, 3405, 1>>, <<3426, 3427, 1>>, <<3457, 3457, 1>>,
      <<3530, 3530, 1>>, <<3538, 3540, 1>>, <<3542, 3542, 1>>,
      <<3633, 3633, 1>>, <<3636, 3642, 1>>, <<3654, 3662, 1>>,
      <<3761, 3761, 1>>, <<3764, 3772, 1>>, <<3782, 3788, 2>>,
      <<3785, 3789, 2>>, <<3864, 3865, 1>>, <<3893, 3897, 2>>,
      <<3953, 3966, 1>>, <<3968, 3972, 1>>, <<3974, 3975, 1>>,
      <<3981, 3991, 1>>, <<3993, 4028, 1>>, <<4038, 4038, 1>>,
      <<4141, 4144, 1>>, <<4146, 4151, 1>>, <<4153, 4154, 1>>,
      <<4157, 4158, 1>>, <<4184, 4185, 1>>, <<4190, 4192, 1>>,
      <<4209, 4212, 1>>, <<4226, 4226, 1>>, <<4229, 4230, 1>>,
      <<4237, 4237, 1>>, <<4253, 4253, 1>>, <<4348, 4348, 1>>,
      <<4957, 4959, 1>>, <<5906, 5908, 1>>, <<5938, 5939, 1>>,
      <<5970, 5971, 1>>, <<6002, 6003, 1>>, <<6068, 6069, 1>>,
      <<6071, 6077, 1>>, <<6086, 6086, 1>>, <<6089, 6099, 1>>,
      <<6103, 6103, 1>>, <<6109, 6109, 1>>, <<6155, 6159, 1>>,
      <<6211, 6211, 1>>, <<6277, 6278, 1>>, <<6313, 6313, 1>>,
      <<6432, 6434, 1>>, <<6439, 6440, 1>>, <<6450, 6450, 1>>,
      <<6457, 6459, 1>>, <<6679, 6680, 1>>, <<6683, 6683, 1>>,
      <<6742, 6754, 2>>, <<6745, 6749, 2>>, <<6757, 6764, 1>>,
      <<6771, 6780, 1>>, <<6783, 6783, 1>>, <<6823, 6823, 1>>,
      <<6832, 6862, 1>>, <<6912, 6915, 1>>, <<6964, 6972, 2>>,
      <<6967, 6969, 2>>, <<6978, 6978, 1>>, <<7019, 7027, 1>>,
      <<7040, 7041, 1>>, <<7074, 7077, 1>>, <<7080, 7081, 1>>,
      <<7083, 7085, 1>>, <<7142, 7144, 2>>, <<7145, 7145, 1>>,
      <<7149, 7153, 2>>, <<7152, 7152, 1>>, <<7212, 7219, 1>>,
      <<7222, 7223, 1>>, <<7288, 7293, 1>>, <<7376, 7378, 1>>,
      <<7380, 7392, 1>>, <<7394, 7400, 1>>, <<7405, 7405, 1>>,
      <<7412, 7412, 1>>, <<7416, 7417, 1>>, <<7468, 7530, 1>>,
      <<7544, 7544, 1>>, <<7579, 7679, 1>>, <<8125, 8129, 2>>,
      <<8128, 8128, 1>>, <<8141, 8143, 1>>, <<8157, 8159, 1>>,
      <<8173, 8175, 1>>, <<8189, 8190, 1>>, <<8203, 8207, 1>>,
      <<8216, 8217, 1>>, <<8228, 8228, 1>>, <<8231, 8231, 1>>,
      <<8234, 8238, 1>>, <<8288, 8292, 1>>, <<8294, 8303, 1>>,
      <<8305, 8305, 1>>, <<8319, 8319, 1>>, <<8336, 8348, 1>>,
      <<8400, 8432, 1>>, <<11388, 11389, 1>>, <<11503, 11505, 1>>,
      <<11631, 11631, 1>>, <<11647, 11647, 1>>, <<11744, 11775, 1>>,
      <<11823, 11823, 1>>, <<12293, 12293, 1>>, <<12330, 12333, 1>>,
      <<12337, 12341, 1>>, <<12347, 12347, 1>>, <<12441, 12446, 1>>,
      <<12540, 12542, 1>>, <<40981, 40981, 1>>, <<42232, 42237, 1>>,
      <<42508, 42508, 1>>, <<42607, 42610, 1>>, <<42612, 42621, 1>>,
      <<42623, 42623, 1>>, <<42652, 42655, 1>>, <<42736, 42737, 1>>,
      <<42752, 42785, 1>>, <<42864, 42864, 1>>, <<42888, 42890, 1>>,
      <<42994, 42996, 1>>, <<43000, 43001, 1>>, <<43010, 43010, 1>>,
      <<43014, 43014, 1>>, <<43019, 43019, 1>>, <<43045, 43046, 1>>,
      <<43052, 43052, 1>>, <<43204, 43205, 1>>, <<43232, 43249, 1>>,
      <<43263, 43263, 1>>, <<43302, 43309, 1>>, <<43335, 43345, 1>>,
      <<43392, 43394, 1>>, <<43443, 43443, 1>>, <<43446, 43449, 1>>,
      <<43452, 43453, 1>>, <<43471, 43471, 1>>, <<43493, 43494, 1>>,
      <<43561, 43566, 1>>, <<43569, 43570, 1>>, <<43573, 43574, 1>>,
      <<43587, 43587, 1>>, <<43596, 43596, 1>>, <<43632, 43632, 1>>,
      <<43644, 43644, 1>>, <<43696, 43700, 2>>, <<43699, 43699, 1>>,
      <<43703, 43704, 1>>, <<43710, 43711, 1>>, <<43713, 43713, 1>>,
      <<43741, 43741, 1>>, <<43756, 43757, 1>>, <<43763, 43764, 1>>,
      <<43766, 43766, 1>>, <<43867, 43871, 1>>, <<43881, 43883, 1>>,
      <<44005, 44005, 1>>, <<44008, 44008, 1>>, <<44013, 44013, 1>>,
      <<64286, 64286, 1>>, <<64434, 64450, 1>>, <<65024, 65039, 1>>,
      <<65043, 65043, 1>>, <<65056, 65071, 1>>, <<65106, 65106, 1>>,
      <<65109, 65109, 1>>, <<65279, 65279, 1>>, <<65287, 65287, 1>>,
      <<65294, 65294, 1>>, <<65306, 65306, 1>>, <<65342, 65344, 2>>,
      <<65392, 65392, 1>>, <<65438, 65439, 1>>, <<65507, 65507, 1>>,
      <<65529, 65531, 1>>, <<66045, 66045, 1>>, <<66272, 66272, 1>>,
      <<66422, 66426, 1>>, <<67456, 67461, 1>>, <<67463, 67504, 1>>,
      <<67506, 67514, 1>>, <<68097, 68099, 1>>, <<68101, 68102, 1>>,
      <<68108, 68111, 1>>, <<68152, 68154, 1>>, <<68159, 68159, 1>>,
      <<68325, 68326, 1>>, <<68900, 68903, 1>>, <<69291, 69292, 1>>,
      <<69446, 69456, 1>>, <<69506, 69509, 1>>, <<69633, 69633, 1>>,
      <<69688, 69702, 1>>, <<69744, 69744, 1>>, <<69747, 69748, 1>>,
      <<69759, 69761, 1>>, <<69811, 69814, 1>>, <<69817, 69818, 1>>,
      <<69821, 69821, 1>>, <<69826, 69826, 1>>, <<69837, 69837, 1>>,
      <<69888, 69890, 1>>, <<69927, 69931, 1>>, <<69933, 69940, 1>>,
      <<70003, 70003, 1>>, <<70016, 70017, 1>>, <<70070, 70078, 1>>,
      <<70089, 70092, 1>>, <<70095, 70095, 1>>, <<70191, 70193, 1>>,
      <<70196, 70198, 2>>, <<70199, 70199, 1>>, <<70206, 70206, 1>>,
      <<70367, 70367, 1>>, <<70371, 70378, 1>>, <<70400, 70401, 1>>,
      <<70459, 70460, 1>>, <<70464, 70464, 1>>, <<70502, 70508, 1>>,
      <<70512, 70516, 1>>, <<70712, 70719, 1>>, <<70722, 70724, 1>>,
      <<70726, 70726, 1>>, <<70750, 70750, 1>>, <<70835, 70840, 1>>,
      <<70842, 70842, 1>>, <<70847, 70848, 1>>, <<70850, 70851, 1>>,
      <<71090, 71093, 1>>, <<71100, 71101, 1>>, <<71103, 71104, 1>>,
      <<71132, 71133, 1>>, <<71219, 71226, 1>>, <<71229, 71231, 2>>,
      <<71232, 71232, 1>>, <<71339, 71341, 2>>, <<71344, 71349, 1>>,
      <<71351, 71351, 1>>, <<71453, 71455, 1>>, <<71458, 71461, 1>>,
      <<71463, 71467, 1>>, <<71727, 71735, 1>>, <<71737, 71738, 1>>,
      <<71995, 71996, 1>>, <<71998, 71998, 1>>, <<72003, 72003, 1>>,
      <<72148, 72151, 1>>, <<72154, 72155, 1>>, <<72160, 72160, 1>>,
      <<72193, 72202, 1>>, <<72243, 72248, 1>>, <<72251, 72254, 1>>,
      <<72263, 72263, 1>>, <<72273, 72278, 1>>, <<72281, 72283, 1>>,
      <<72330, 72342, 1>>, <<72344, 72345, 1>>, <<72752, 72758, 1>>,
      <<72760, 72765, 1>>, <<72767, 72767, 1>>, <<72850, 72871, 1>>,
      <<72874, 72880, 1>>, <<72882, 72883, 1>>, <<72885, 72886, 1>>,
      <<73009, 73014, 1>>, <<73018, 73020, 2>>, <<73021, 73031, 2>>,
      <<73024, 73028, 2>>, <<73104, 73105, 1>>, <<73109, 73111, 2>>,
      <<73459, 73460, 1>>, <<78896, 78904, 1>>, <<92912, 92916, 1>>,
      <<92976, 92982, 1>>, <<92992, 92995, 1>>, <<94031, 94031, 1>>,
      <<94095, 94111, 1>>, <<94176, 94177, 1>>, <<94179, 94180, 1>>,
      <<110576, 110579, 1>>, <<110581, 110587, 1>>, <<110589, 110590, 1>>,
      <<113821, 113822, 1>>, <<113824, 113827, 1>>, <<118528, 118573, 1>>,
      <<118576, 118598, 1>>, <<119143, 119145, 1>>, <<119155, 119170, 1>>,
      <<119173, 119179, 1>>, <<119210, 119213, 1>>, <<119362, 119364, 1>>,
      <<121344, 121398, 1>>, <<121403, 121452, 1>>, <<121461, 121461, 1>>,
      <<121476, 121476, 1>>, <<121499, 121503, 1>>, <<121505, 121519, 1>>,
      <<122880, 122886, 1>>, <<122888, 122904, 1>>, <<122907, 122913, 1>>,
      <<122915, 122916, 1>>, <<122918, 122922, 1>>, <<123184, 123197, 1>>,
      <<123566, 123566, 1>>, <<123628, 123631, 1>>, <<125136, 125142, 1>>,
      <<125252, 125259, 1>>, <<127995, 127999, 1>>, <<917505, 917505, 1>>,
      <<917536, 917631, 1>>, <<917760, 917999, 1>> }

InRanges(c, ranges) ==
    \E r \in ranges : r[1] <= c /\ c <= r[2] /\ (c - r[1]) % r[3] = 0

Offset(c, ranges) ==
    IF InRanges(c, ranges)
    THEN (CHOOSE r \in ranges : r[1] <= c /\ c <= r[2] /\ (c - r[1]) % r[3] = 0)[4]
    ELSE 0

\* str.isspace() of one character
IsSpace(c) ==
    c \in (9..13) \cup (28..32) \cup {133, 160, 5760} \cup (8192..8202)
          \cup {8232, 8233, 8239, 8287, 12288}

\* the Cased property
IsCased(c) ==
    IF c < 128 THEN c \in (65..90) \cup (97..122) ELSE InRanges(c, CasedRanges)

\* the Case_Ignorable property
IsCaseIgnorable(c) ==
    IF c < 128 THEN c \in {39, 46, 58, 94, 96} ELSE InRanges(c, CaseIgnorableRanges)

\* the lower-case form of one code point
ToLowerFull(c) ==
    IF c < 128 THEN (IF c \in 65..90 THEN <<c + 32>> ELSE <<c>>)
    ELSE IF c = 304 THEN <<105, 775>>
    ELSE <<c + Offset(c, LowerRanges)>>

\* the title-case form of one code point
ToTitleFull(c) ==
    IF c < 128 THEN (IF c \in 97..122 THEN <<c - 32>> ELSE <<c>>)
    ELSE IF \E t \in TitleSpecial : t[1] = c
         THEN (CHOOSE t \in TitleSpecial : t[1] = c)[2]
         ELSE <<c + Offset(c, TitleRanges)>>

\* a capital sigma at position i is final when a cased character precedes it
\* and none follows, case-ignorable characters skipped on both sides
FinalSigma(s, i) ==
    LET before == {j \in 1..(i - 1) : ~IsCaseIgnorable(s[j])}
        after  == {j \in (i + 1)..Len(s) : ~IsCaseIgnorable(s[j])}
    IN  /\ before # {}
        /\ IsCased(s[CHOOSE j \in before : \A k \in before : k <= j])
        /\ (after = {} \/ ~IsCased(s[CHOOSE j \in after : \A k \in after : j <= k]))

\* the lower-case form of the character at position i of s
LowerAt(s, i) ==
    IF s[i] = 931 /\ FinalSigma(s, i) THEN <<962>> ELSE ToLowerFull(s[i])

RECURSIVE Flatten(_)
Flatten(parts) == IF parts = <<>> THEN <<>> ELSE Head(parts) \o Flatten(Tail(parts))

\* str.lower()
lower(s) == Flatten([i \in 1..Len(s) |-> LowerAt(s, i)])

\* str.strip()
RECURSIVE lstrip(_)
lstrip(s) == IF s # <<>> /\ IsSpace(Head(s)) THEN lstrip(Tail(s)) ELSE s

RECURSIVE rstrip(_)
rstrip(s) ==
    IF s # <<>> /\ IsSpace(s[Len(s)]) THEN rstrip(SubSeq(s, 1, Len(s) - 1)) ELSE s

strip(s) == rstrip(lstrip(s))

\* str.replace(old, new) for one-character old and new
replace(s, old, new) == [k \in 1..Len(s) |-> IF s[k] = old THEN new ELSE s[k]]

\* str.title(): a character after a cased one is lower-cased, any other is
\* title-cased
title(s) ==
    Flatten([i \in 1..Len(s) |->
                IF i > 1 /\ IsCased(s[i - 1]) THEN LowerAt(s, i) ELSE ToTitleFull(s[i])])

\* os.path.splitext(p)[0] (posixpath): cut at the last dot, if it comes after
\* the last "/" and a character other than a dot stands between them
splitext_root(p) ==
    LET Last(ch) == LET at == {k \in 1..Len(p) : p[k] = ch}
                    IN  IF at = {} THEN 0 ELSE CHOOSE k \in at : \A j \in at : j <= k
        sepIndex == Last(47)
        dotIndex == Last(46)
    IN  IF dotIndex > sepIndex /\ \E k \in (sepIndex + 1)..(dotIndex - 1) : p[k] # 46
        THEN SubSeq(p, 1, dotIndex - 1)
        ELSE p

\* a < b for two str: the first differing code point decides, a proper prefix is smaller
StrLess(a, b) ==
    \E k \in 1..Len(b) :
        /\ \A j \in 1..(k - 1) : j <= Len(a) /\ a[j] = b[j]
        /\ k - 1 <= Len(a)
        /\ (k > Len(a) \/ a[k] < b[k])

\* <<first, last, 1>>: the code points from 128 on that repr() escapes
\* (not str.isprintable())
NonPrintableRanges ==
    { <<128, 160, 1>>, <<173, 173, 1>>, <<888, 889, 1>>, <<896, 899, 1>>,
      <<907, 907, 1>>, <<909, 909, 1>>, <<930, 930, 1>>, <<1328, 1328, 1>>,
      <<1367, 1368, 1>>, <<1419, 1420, 1>>, <<1424, 1424, 1>>,
      <<1480, 1487, 1>>, <<1515, 1518, 1>>, <<1525, 1541, 1>>,
      <<1564, 1564, 1>>, <<1757, 1757, 1>>, <<1806, 1807, 1>>,
      <<1867, 1868, 1>>, <<1970, 1983, 1>>, <<2043, 2044, 1>>,
      <<2094, 2095, 1>>, <<2111, 2111, 1>>, <<2140, 2141, 1>>,
      <<2143, 2143, 1>>, <<2155, 2159, 1>>, <<2191, 2199, 1>>,
      <<2274, 2274, 1>>, <<2436, 2436, 1>>, <<2445, 2446, 1>>,
      <<2449, 2450, 1>>, <<2473, 2473, 1>>, <<2481, 2481, 1>>,
      <<2483, 2485, 1>>, <<2490, 2491, 1>>, <<2501, 2502, 1>>,
      <<2505, 2506, 1>>, <<2511, 2518, 1>>, <<2520, 2523, 1>>,
      <<2526, 2526, 1>>, <<2532, 2533, 1>>, <<2559, 2560, 1>>,
      <<2564, 2564, 1>>, <<2571, 2574, 1>>, <<2577, 2578, 1>>,
      <<2601, 2601, 1>>, <<2609, 2609, 1>>, <<2612, 2612, 1>>,
      <<2615, 2615, 1>>, <<2618, 2619, 1>>, <<2621, 2621, 1>>,
      <<2627, 2630, 1>>, <<2633, 2634, 1>>, <<2638, 2640, 1>>,
      <<2642, 2648, 1>>, <<2653, 2653, 1>>, <<2655, 2661, 1>>,
      <<2679, 2688, 1>>, <<2692, 2692, 1>>, <<2702, 2702, 1>>,
      <<2706, 2706, 1>>, <<2729, 2729, 1>>, <<2737, 2737, 1>>,
      <<2740, 2740, 1>>, <<2746, 2747, 1>>, <<2758, 2758, 1>>,
      <<2762, 2762, 1>>, <<2766, 2767, 1>>, <<2769, 2783, 1>>,
      <<2788, 2789, 1>>, <<2802, 2808, 1>>, <<2816, 2816, 1>>,
      <<2820, 2820, 1>>, <<2829, 2830, 1>>, <<2833, 2834, 1>>,
      <<2857, 2857, 1>>, <<2865, 2865, 1>>, <<2868, 2868, 1>>,
      <<2874, 2875, 1>>, <<2885, 2886, 1>>, <<2889, 2890, 1>>,
      <<2894, 2900, 1>>, <<2904, 2907, 1>>, <<2910, 2910, 1>>,
      <<2916, 2917, 1>>, <<2936, 2945, 1>>, <<2948, 2948, 1>>,
      <<2955, 2957, 1>>, <<2961, 2961, 1>>, <<2966, 2968, 1>>,
      <<2971, 2971, 1>>, <<2973, 2973, 1>>, <<2976, 2978, 1>>,
      <<2981, 2983, 1>>, <<2987, 2989, 1>>, <<3002, 3005, 1>>,
      <<3011, 3013, 1>>, <<3017, 3017, 1>>, <<3022, 3023, 1>>,
      <<3025, 3030, 1>>, <<3032, 3045, 1>>, <<3067, 3071, 1>>,
      <<3085, 3085, 1>>, <<3089, 3089, 1>>, <<3113, 3113, 1>>,
      <<3130, 3131, 1>>, <<3141, 3141, 1>>, <<3145, 3145, 1>>,
      <<3150, 3156, 1>>, <<3159, 3159, 1>>, <<3163, 3164, 1>>,
      <<3166, 3167, 1>>, <<3172, 3173, 1>>, <<3184, 3190, 1>>,
      <<3213, 3213, 1>>, <<3217, 3217, 1>>, <<3241, 3241, 1>>,
      <<3252, 3252, 1>>, <<3258, 3259, 1>>, <<3269, 3269, 1>>,
      <<3273, 3273, 1>>, <<3278, 3284, 1>>, <<3287, 3292, 1>>,
      <<3295, 3295, 1>>, <<3300, 3301, 1>>, <<3312, 3312, 1>>,
      <<3315, 3327, 1>>, <<3341, 3341, 1>>, <<3345, 3345, 1>>,
      <<3397, 3397, 1>>, <<3401, 3401, 1>>, <<3408, 3411, 1>>,
      <<3428, 3429, 1>>, <<3456, 3456, 1>>, <<3460, 3460, 1>>,
      <<3479, 3481, 1>>, <<3506, 3506, 1>>, <<3516, 3516, 1>>,
      <<3518, 3519, 1>>, <<3527, 3529, 1>>, <<3531, 3534, 1>>,
      <<3541, 3541, 1>>, <<3543, 3543, 1>>, <<3552, 3557, 1>>,
      <<3568, 3569, 1>>, <<3573, 3584, 1>>, <<3643, 3646, 1>>,
      <<3676, 3712, 1>>, <<3715, 3715, 1>>, <<3717, 3717, 1>>,
      <<3723, 3723, 1>>, <<3748, 3748, 1>>, <<3750, 3750, 1>>,
      <<3774, 3775, 1>>, <<3781, 3781, 1>>, <<3783, 3783, 1>>,
      <<3790, 3791, 1>>, <<3802, 3803, 1>>, <<3808, 3839, 1>>,
      <<3912, 3912, 1>>, <<3949, 3952, 1>>, <<3992, 3992, 1>>,
      <<4029, 4029, 1>>, <<4045, 4045, 1>>, <<4059, 4095, 1>>,
      <<4294, 4294, 1>>, <<4296, 4300, 1>>, <<4302, 4303, 1>>,
      <<4681, 4681, 1>>, <<4686, 4687, 1>>, <<4695, 4695, 1>>,
      <<4697, 4697, 1>>, <<4702, 4703, 1>>, <<4745, 4745, 1>>,
      <<4750, 4751, 1>>, <<4785, 4785, 1>>, <<4790, 4791, 1>>,
      <<4799, 4799, 1>>, <<4801, 4801, 1>>, <<4806, 4807, 1>>,
      <<4823, 4823, 1>>, <<4881, 4881, 1>>, <<4886, 4887, 1>>,
      <<4955, 4956, 1>>, <<4989, 4991, 1>>, <<5018, 5023, 1>>,
      <<5110, 5111, 1>>, <<5118, 5119, 1>>, <<5760, 5760, 1>>,
      <<5789, 5791, 1>>, <<5881, 5887, 1>>, <<5910, 5918, 1>>,
      <<5943, 5951, 1>>, <<5972, 5983, 1>>, <<5997, 5997, 1>>,
      <<6001, 6001, 1>>, <<6004, 6015, 1>>, <<6110, 6111, 1>>,
      <<6122, 6127, 1>>, <<6138, 6143, 1>>, <<6158, 6158, 1>>,
      <<6170, 6175, 1>>, <<6265, 6271, 1>>, <<6315, 6319, 1>>,
      <<6390, 6399, 1>>, <<6431, 6431, 1>>, <<6444, 6447, 1>>,
      <<6460, 6463, 1>>, <<6465, 6467, 1>>, <<6510, 6511, 1>>,
      <<6517, 6527, 1>>, <<6572, 6575, 1>>, <<6602, 6607, 1>>,
      <<6619, 6621, 1>>, <<6684, 6685, 1>>, <<6751, 6751, 1>>,
      <<6781, 6782, 1>>, <<6794, 6799, 1>>, <<6810, 6815, 1>>,
      <<6830, 6831, 1>>, <<6863, 6911, 1>>, <<6989, 6991, 1>>,
      <<7039, 7039, 1>>, <<7156, 7163, 1>>, <<7224, 7226, 1>>,
      <<7242, 7244, 1>>, <<7305, 7311, 1>>, <<7355, 7356, 1>>,
      <<7368, 7375, 1>>, <<7419, 7423, 1>>, <<7958, 7959, 1>>,
      <<7966, 7967, 1>>, <<8006, 8007, 1>>, <<8014, 8015, 1>>,
      <<8024, 8024, 1>>, <<8026, 8026, 1>>, <<8028, 8028, 1>>,
      <<8030, 8030, 1>>, <<8062, 8063, 1>>, <<8117, 8117, 1>>,
      <<8133, 8133, 1>>, <<8148, 8149, 1>>, <<8156, 8156, 1>>,
      <<8176, 8177, 1>>, <<8181, 8181, 1>>, <<8191, 8207, 1>>,
      <<8232, 8239, 1>>, <<8287, 8303, 1>>, <<8306, 8307, 1>>,
      <<8335, 8335, 1>>, <<8349, 8351, 1>>, <<8385, 8399, 1>>,
      <<8433, 8447, 1>>, <<8588, 8591, 1>>, <<9255, 9279, 1>>,
      <<9291, 9311, 1>>, <<11124, 11125, 1>>, <<11158, 11158, 1>>,
      <<11508, 11512, 1>>, <<11558, 11558, 1>>, <<11560, 11564, 1>>,
      <<11566, 11567, 1>>, <<11624, 11630, 1>>, <<11633, 11646, 1>>,
      <<11671, 11679, 1>>, <<11687, 11687, 1>>, <<11695, 11695, 1>>,
      <<11703, 11703, 1>>, <<11711, 11711, 1>>, <<11719, 11719, 1>>,
      <<11727, 11727, 1>>, <<11735, 11735, 1>>, <<11743, 11743, 1>>,
      <<11870, 11903, 1>>, <<11930, 11930, 1>>, <<12020, 12031, 1>>,
      <<12246, 12271, 1>>, <<12284, 12288, 1>>, <<12352, 12352, 1>>,
      <<12439, 12440, 1>>, <<12544, 12548, 1>>, <<12592, 12592, 1>>,
      <<12687, 12687, 1>>, <<12772, 12783, 1>>, <<12831, 12831, 1>>,
      <<42125, 42127, 1>>, <<42183, 42191, 1>>, <<42540, 42559, 1>>,
      <<42744, 42751, 1>>, <<42955, 42959, 1>>, <<42962, 42962, 1>>,
      <<42964, 42964, 1>>, <<42970, 42993, 1>>, <<43053, 43055, 1>>,
      <<43066, 43071, 1>>, <<43128, 43135, 1>>, <<43206, 43213, 1>>,
      <<43226, 43231, 1>>, <<43348, 43358, 1>>, <<43389, 43391, 1>>,
      <<43470, 43470, 1>>, <<43482, 43485, 1>>, <<43519, 43519, 1>>,
      <<43575, 43583, 1>>, <<43598, 43599, 1>>, <<43610, 43611, 1>>,
      <<43715, 43738, 1>>, <<43767, 43776, 1>>, <<43783, 43784, 1>>,
      <<43791, 43792, 1>>, <<43799, 43807, 1>>, <<43815, 43815, 1>>,
      <<43823, 43823, 1>>, <<43884, 43887, 1>>, <<44014, 44015, 1>>,
      <<44026, 44031, 1>>, <<55204, 55215, 1>>, <<55239, 55242, 1>>,
      <<55292, 63743, 1>>, <<64110, 64111, 1>>, <<64218, 64255, 1>>,
      <<64263, 64274, 1>>, <<64280, 64284, 1>>, <<64311, 64311, 1>>,
      <<64317, 64317, 1>>, <<64319, 64319, 1>>, <<64322, 64322, 1>>,
      <<64325, 64325, 1>>, <<64451, 64466, 1>>, <<64912, 64913, 1>>,
      <<64968, 64974, 1>>, <<64976, 65007, 1>>, <<65050, 65055, 1>>,
      <<65107, 65107, 1>>, <<65127, 65127, 1>>, <<65132, 65135, 1>>,
      <<65141, 65141, 1>>, <<65277, 65280, 1>>, <<65471, 65473, 1>>,
      <<65480, 65481, 1>>, <<65488, 65489, 1>>, <<65496, 65497, 1>>,
      <<65501, 65503, 1>>, <<65511, 65511, 1>>, <<65519, 65531, 1>>,
      <<65534, 65535, 1>>, <<65548, 65548, 1>>, <<65575, 65575, 1>>,
      <<65595, 65595, 1>>, <<65598, 65598, 1>>, <<65614, 65615, 1>>,
      <<65630, 65663, 1>>, <<65787, 65791, 1>>, <<65795, 65798, 1>>,
      <<65844, 65846, 1>>, <<65935, 65935, 1>>, <<65949, 65951, 1>>,
      <<65953, 65999, 1>>, <<66046, 66175, 1>>, <<66205, 66207, 1>>,
      <<66257, 66271, 1>>, <<66300, 66303, 1>>, <<66340, 66348, 1>>,
      <<66379, 66383, 1>>, <<66427, 66431, 1>>, <<66462, 66462, 1>>,
      <<66500, 66503, 1>>, <<66518, 66559, 1>>, <<66718, 66719, 1>>,
      <<66730, 66735, 1>>, <<66772, 66775, 1>>, <<66812, 66815, 1>>,
      <<66856, 66863, 1>>, <<66916, 66926, 1>>, <<66939, 66939, 1>>,
      <<66955, 66955, 1>>, <<66963, 66963, 1>>, <<66966, 66966, 1>>,
      <<66978, 66978, 1>>, <<66994, 66994, 1>>, <<67002, 67002, 1>>,
      <<67005, 67071, 1>>, <<67383, 67391, 1>>, <<67414, 67423, 1>>,
      <<67432, 67455, 1>>, <<67462, 67462, 1>>, <<67505, 67505, 1>>,
      <<67515, 67583, 1>>, <<67590, 67591, 1>>, <<67593, 67593, 1>>,
      <<67638, 67638, 1>>, <<67641, 67643, 1>>, <<67645, 67646, 1>>,
      <<67670, 67670, 1>>, <<67743, 67750, 1>>, <<67760, 67807, 1>>,
      <<67827, 67827, 1>>, <<67830, 67834, 1>>, <<67868, 67870, 1>>,
      <<67898, 67902, 1>>, <<67904, 67967, 1>>, <<68024, 68027, 1>>,
      <<68048, 68049, 1>>, <<68100, 68100, 1>>, <<68103, 68107, 1>>,
      <<68116, 68116, 1>>, <<68120, 68120, 1>>, <<68150, 68151, 1>>,
      <<68155, 68158, 1>>, <<68169, 68175, 1>>, <<68185, 68191, 1>>,
      <<68256, 68287, 1>>, <<68327, 68330, 1>>, <<68343, 68351, 1>>,
      <<68406, 68408, 1>>, <<68438, 68439, 1>>, <<68467, 68471, 1>>,
      <<68498, 68504, 1>>, <<68509, 68520, 1>>, <<68528, 68607, 1>>,
      <<68681, 68735, 1>>, <<68787, 68799, 1>>, <<68851, 68857, 1>>,
      <<68904, 68911, 1>>, <<68922, 69215, 1>>, <<69247, 69247, 1>>,
      <<69290, 69290, 1>>, <<69294, 69295, 1>>, <<69298, 69375, 1>>,
      <<69416, 69423, 1>>, <<69466, 69487, 1>>, <<69514, 69551, 1>>,
      <<69580, 69599, 1>>, <<69623, 69631, 1>>, <<69710, 69713, 1>>,
      <<69750, 69758, 1>>, <<69821, 69821, 1>>, <<69827, 69839, 1>>,
      <<69865, 69871, 1>>, <<69882, 69887, 1>>, <<69941, 69941, 1>>,
      <<69960, 69967, 1>>, <<70007, 70015, 1>>, <<70112, 70112, 1>>,
      <<70133, 70143, 1>>, <<70162, 70162, 1>>, <<70207, 70271, 1>>,
      <<70279, 70279, 1>>, <<70281, 70281, 1>>, <<70286, 70286, 1>>,
      <<70302, 70302, 1>>, <<70314, 70319, 1>>, <<70379, 70383, 1>>,
      <<70394, 70399, 1>>, <<70404, 70404, 1>>, <<70413, 70414, 1>>,
      <<70417, 70418, 1>>, <<70441, 70441, 1>>, <<70449, 70449, 1>>,
      <<70452, 70452, 1>>, <<70458, 70458, 1>>, <<70469, 70470, 1>>,
      <<70473, 70474, 1>>, <<70478, 70479, 1>>, <<70481, 70486, 1>>,
      <<70488, 70492, 1>>, <<70500, 70501, 1>>, <<70509, 70511, 1>>,
      <<70517, 70655, 1>>, <<70748, 70748, 1>>, <<70754, 70783, 1>>,
      <<70856, 70863, 1>>, <<70874, 71039, 1>>, <<71094, 71095, 1>>,
      <<71134, 71167, 1>>, <<71237, 71247, 1>>, <<71258, 71263, 1>>,
      <<71277, 71295, 1>>, <<71354, 71359, 1>>, <<71370, 71423, 1>>,
      <<71451, 71452, 1>>, <<71468, 71471, 1>>, <<71495, 71679, 1>>,
      <<71740, 71839, 1>>, <<71923, 71934, 1>>, <<71943, 71944, 1>>,
      <<71946, 71947, 1>>, <<71956, 71956, 1>>, <<71959, 71959, 1>>,
      <<71990, 71990, 1>>, <<71993, 71994, 1>>, <<72007, 72015, 1>>,
      <<72026, 72095, 1>>, <<72104, 72105, 1>>, <<72152, 72153, 1>>,
      <<72165, 72191, 1>>, <<72264, 72271, 1>>, <<72355, 72367, 1>>,
      <<72441, 72703, 1>>, <<72713, 72713, 1>>, <<72759, 72759, 1>>,
      <<72774, 72783, 1>>, <<72813, 72815, 1>>, <<72848, 72849, 1>>,
      <<72872, 72872, 1>>, <<72887, 72959, 1>>, <<72967, 72967, 1>>,
      <<72970, 72970, 1>>, <<73015, 73017, 1>>, <<73019, 73019, 1>>,
      <<73022, 73022, 1>>, <<73032, 73039, 1>>, <<73050, 73055, 1>>,
      <<73062, 73062, 1>>, <<73065, 73065, 1>>, <<73103, 73103, 1>>,
      <<73106, 73106, 1>>, <<73113, 73119, 1>>, <<73130, 73439, 1>>,
      <<73465, 73647, 1>>, <<73649, 73663, 1>>, <<73714, 73726, 1>>,
      <<74650, 74751, 1>>, <<74863, 74863, 1>>, <<74869, 74879, 1>>,
      <<75076, 77711, 1>>, <<77811, 77823, 1>>, <<78895, 82943, 1>>,
      <<83527, 92159, 1>>, <<92729, 92735, 1>>, <<92767, 92767, 1>>,
      <<92778, 92781, 1>>, <<92863, 92863, 1>>, <<92874, 92879, 1>>,
      <<92910, 92911, 1>>, <<92918, 92927, 1>>, <<92998, 93007, 1>>,
      <<93018, 93018, 1>>, <<93026, 93026, 1>>, <<93048, 93052, 1>>,
      <<93072, 93759, 1>>, <<93851, 93951, 1>>, <<94027, 94030, 1>>,
      <<94088, 94094, 1>>, <<94112, 94175, 1>>, <<94181, 94191, 1>>,
      <<94194, 94207, 1>>, <<100344, 100351, 1>>, <<101590, 101631, 1>>,
      <<101641, 110575, 1>>, <<110580, 110580, 1>>, <<110588, 110588, 1>>,
      <<110591, 110591, 1>>, <<110883, 110927, 1>>, <<110931, 110947, 1>>,
      <<110952, 110959, 1>>, <<111356, 113663, 1>>, <<113771, 113775, 1>>,
      <<113789, 113791, 1>>, <<113801, 113807, 1>>, <<113818, 113819, 1>>,
      <<113824, 118527, 1>>, <<118574, 118575, 1>>, <<118599, 118607, 1>>,
      <<118724, 118783, 1>>, <<119030, 119039, 1>>, <<119079, 119080, 1>>,
      <<119155, 119162, 1>>, <<119275, 119295, 1>>, <<119366, 119519, 1>>,
      <<119540, 119551, 1>>, <<119639, 119647, 1>>, <<119673, 119807, 1>>,
      <<119893, 119893, 1>>, <<119965, 119965, 1>>, <<119968, 119969, 1>>,
      <<119971, 119972, 1>>, <<119975, 119976, 1>>, <<119981, 119981, 1>>,
      <<119994, 119994, 1>>, <<119996, 119996, 1>>, <<120004, 120004, 1>>,
      <<120070, 120070, 1>>, <<120075, 120076, 1>>, <<120085, 120085, 1>>,
      <<120093, 120093, 1>>, <<120122, 120122, 1>>, <<120127, 120127, 1>>,
      <<120133, 120133, 1>>, <<120135, 120137, 1>>, <<120145, 120145, 1>>,
      <<120486, 120487, 1>>, <<120780, 120781, 1>>, <<121484, 121498, 1>>,
      <<121504, 121504, 1>>, <<121520, 122623, 1>>, <<122655, 122879, 1>>,
      <<122887, 122887, 1>>, <<122905, 122906, 1>>, <<122914, 122914, 1>>,
      <<122917, 122917, 1>>, <<122923, 123135, 1>>, <<123181, 123183, 1>>,
      <<123198, 123199, 1>>, <<123210, 123213, 1>>, <<123216, 123535, 1>>,
      <<123567, 123583, 1>>, <<123642, 123646, 1>>, <<123648, 124895, 1>>,
      <<124903, 124903, 1>>, <<124908, 124908, 1>>, <<124911, 124911, 1>>,
      <<124927, 124927, 1>>, <<125125, 125126, 1>>, <<125143, 125183, 1>>,
      <<125260, 125263, 1>>, <<125274, 125277, 1>>, <<125280, 126064, 1>>,
      <<126133, 126208, 1>>, <<126270, 126463, 1>>, <<126468, 126468, 1>>,
      <<126496, 126496, 1>>, <<126499, 126499, 1>>, <<126501, 126502, 1>>,
      <<126504, 126504, 1>>, <<126515, 126515, 1>>, <<126520, 126520, 1>>,
      <<126522, 126522, 1>>, <<126524, 126529, 1>>, <<126531, 126534, 1>>,
      <<126536, 126536, 1>>, <<126538, 126538, 1>>, <<126540, 126540, 1>>,
      <<126544, 126544, 1>>, <<126547, 126547, 1>>, <<126549, 126550, 1>>,
      <<126552, 126552, 1>>, <<126554, 126554, 1>>, <<126556, 126556, 1>>,
      <<126558, 126558, 1>>, <<126560, 126560, 1>>, <<126563, 126563, 1>>,
      <<126565, 126566, 1>>, <<126571, 126571, 1>>, <<126579, 126579, 1>>,
      <<126584, 126584, 1>>, <<126589, 126589, 1>>, <<126591, 126591, 1>>,
      <<126602, 126602, 1>>, <<126620, 126624, 1>>, <<126628, 126628, 1>>,
      <<126634, 126634, 1>>, <<126652, 126703, 1>>, <<126706, 126975, 1>>,
      <<127020, 127023, 1>>, <<127124, 127135, 1>>, <<127151, 127152, 1>>,
      <<127168, 127168, 1>>, <<127184, 127184, 1>>, <<127222, 127231, 1>>,
      <<127406, 127461, 1>>, <<127491, 127503, 1>>, <<127548, 127551, 1>>,
      <<127561, 127567, 1>>, <<127570, 127583, 1>>, <<127590, 127743, 1>>,
      <<128728, 128732, 1>>, <<128749, 128751, 1>>, <<128765, 128767, 1>>,
      <<128884, 128895, 1>>, <<128985, 128991, 1>>, <<129004, 129007, 1>>,
      <<129009, 129023, 1>>, <<129036, 129039, 1>>, <<129096, 129103, 1>>,
      <<129114, 129119, 1>>, <<129160, 129167, 1>>, <<129198, 129199, 1>>,
      <<129202, 129279, 1>>, <<129620, 129631, 1>>, <<129646, 129647, 1>>,
      <<129653, 129655, 1>>, <<129661, 129663, 1>>, <<129671, 129679, 1>>,
      <<129709, 129711, 1>>, <<129723, 129727, 1>>, <<129734, 129743, 1>>,
      <<129754, 129759, 1>>, <<129768, 129775, 1>>, <<129783, 129791, 1>>,
      <<129939, 129939, 1>>, <<129995, 130031, 1>>, <<130042, 131071, 1>>,
      <<173792, 173823, 1>>, <<177977, 177983, 1>>, <<178206, 178207, 1>>,
      <<183970, 183983, 1>>, <<191457, 194559, 1>>, <<195102, 196607, 1>>,
      <<201547, 917759, 1>>, <<918000, 1114111, 1>> }

\* str.isprintable() of one character
IsPrintable(c) == IF c < 128 THEN c \in 32..126 ELSE ~InRanges(c, NonPrintableRanges)

\* one lower-case hexadecimal digit
HexDigit(d) == IF d < 10 THEN 48 + d ELSE 87 + d

RECURSIVE Hex(_, _)
Hex(n, width) ==
    IF width = 0 THEN <<>> ELSE Hex(n \div 16, width - 1) \o <<HexDigit(n % 16)>>

\* repr(s) of a str: quoted with ', or with " when s holds a ' and no "; the
\* quote, the backslash and the characters that are not printable escaped
repr(s) ==
    LET quote == IF (\E k \in 1..Len(s) : s[k] = 39) /\ ~(\E k \in 1..Len(s) : s[k] = 34)
                 THEN 34 ELSE 39
        Escaped(c) ==
            IF c = quote \/ c = 92 THEN <<92, c>>
            ELSE IF c = 9 THEN <<92, 116>>
            ELSE IF c = 10 THEN <<92, 110>>
            ELSE IF c = 13 THEN <<92, 114>>
            ELSE IF IsPrintable(c) THEN <<c>>
            ELSE IF c <= 255 THEN <<92, 120>> \o Hex(c, 2)
            ELSE IF c <= 65535 THEN <<92, 117>> \o Hex(c, 4)
            ELSE <<92, 85>> \o Hex(c, 8)
    IN  <<quote>> \o Flatten([k \in 1..Len(s) |-> Escaped(s[k])]) \o <<quote>>

----------------------------------------------------------------------------
(* Backend/Ranking.py.  A list of dicts is a sequence of object identities *)
(* and a store objects: identity -> dict, so that one dict standing at two *)
(* places of a list is one object.                                         *)

\* the dicts a list refers to, in list order
Deref(objects, list) == [k \in 1..Len(list) |-> objects[list[k]]]

\* faulty variant: the tie-break compares the names as written
SortKeyCaseSensitive(c) == <<-Get(c, "score", 0), Get(c, "name", <<>>)>>

\* faulty variant: ascending by score
SortKeyAscending(c) == <<Get(c, "score", 0), lower(Get(c, "name", <<>>))>>

\* key=lambda c: (-c.get("score", 0.0), c.get("name", "").lower())
SortKey(c) == <<-Get(c, "score", 0), lower(Get(c, "name", <<>>))>>

\* tuple comparison k1 < k2
KeyLess(k1, k2) == k1[1] < k2[1] \/ (k1[1] = k2[1] /\ StrLess(k1[2], k2[2]))

\* sorted() is stable: an element goes before the first strictly greater one
SortInsert(order, idx, keys) ==
    LET later == {p \in 1..Len(order) : KeyLess(keys[idx], keys[order[p]])}
        pos == IF later = {} THEN Len(order) + 1
               ELSE CHOOSE p \in later : \A q \in later : p <= q
    IN  SubSeq(order, 1, pos - 1) \o <<idx>> \o SubSeq(order, pos, Len(order))

RECURSIVE SortPrefix(_, _)
SortPrefix(keys, n) ==
    IF n = 0 THEN <<>> ELSE SortInsert(SortPrefix(keys, n - 1), n, keys)

\* sorted(candidates, key=...), as the input positions in output order; the
\* key of each element is computed once
sorted_order(seq) ==
    LET keys == [k \in 1..Len(seq) |-> SortKey(seq[k])]
    IN  SortPrefix(keys, Len(seq))

\* for rank, candidate in enumerate(ranked, start=1): candidate["rank"] = rank
RECURSIVE RankLoop(_, _, _)
RankLoop(objects, ranked_list, rank) ==
    IF rank > Len(ranked_list) THEN objects
    ELSE RankLoop([objects EXCEPT ![ranked_list[rank]] = SetItem(@, "rank", rank)],
                  ranked_list, rank + 1)

\* the assignments of that loop, in order: <<object, rank>>
RankWrites(ranked_list) == [j \in 1..Len(ranked_list) |-> <<ranked_list[j], j>>]

\* faulty variant: competition ranking, equal scores share a rank
get_domain_leaderboard_shared_rank(objects, cands) ==
    LET order == sorted_order(Deref(objects, cands))
        list  == [j \in 1..Len(cands) |-> cands[order[j]]]
        above(o) == {q \in 1..Len(cands) :
                        Get(objects[cands[q]], "score", 0) > Get(objects[o], "score", 0)}
    IN  [objects |-> [o \in DOMAIN objects |->
                         IF \E j \in 1..Len(cands) : cands[j] = o
                         THEN SetItem(objects[o], "rank", Cardinality(above(o)) + 1)
                         ELSE objects[o]],
         ranked  |-> list]

\* faulty variant: records that carry an error are left out of the leaderboard
get_domain_leaderboard_drop_failed(objects, cands) ==
    LET kept  == SelectSeq(cands, LAMBDA o : "error" \notin DOMAIN objects[o])
        order == sorted_order(Deref(objects, kept))
        list  == [j \in 1..Len(kept) |-> kept[order[j]]]
    IN  [objects |-> RankLoop(objects, list, 1), ranked |-> list]

\* the new list (ranked) and the dicts after the call (objects)
get_domain_leaderboard(objects, cands) ==
    LET order == sorted_order(Deref(objects, cands))
        list  == [j \in 1..Len(cands) |-> cands[order[j]]]
    IN  [objects |-> RankLoop(objects, list, 1), ranked |-> list]

RECURSIVE SumScores(_)
SumScores(seq) ==
    IF seq = <<>> THEN 0 ELSE Get(Head(seq), "score", 0) + SumScores(Tail(seq))

AvgDigits == 4

RECURSIVE Pow10(_)
Pow10(n) == IF n = 0 THEN 1 ELSE 10 * Pow10(n - 1)

RECURSIVE Pow2(_)
Pow2(n) == IF n = 0 THEN 1 ELSE 2 * Pow2(n - 1)

RECURSIVE Pow2Mod(_, _)
Pow2Mod(n, d) == IF n = 0 THEN 1 % d ELSE (2 * Pow2Mod(n - 1, d)) % d

RECURSIVE Gcd(_, _)
Gcd(a, b) == IF b = 0 THEN a ELSE Gcd(b, a % b)

\* float division p / d, d odd and > 1: TRUE when the double nearest to p / d
\* lies above it (53-bit significand, round to nearest)
QuotientRoundsUp(p, d) ==
    LET k == IF p >= d
             THEN CHOOSE e \in 0..30 :
                      /\ p \div Pow2(e) >= d
                      /\ \A f \in (e + 1)..30 : p \div Pow2(f) < d
             ELSE -(CHOOSE m \in 1..30 :
                      /\ p * Pow2(m) >= d
                      /\ \A f \in 1..(m - 1) : p * Pow2(f) < d)
    IN  2 * (((p % d) * Pow2Mod(52 - k, d)) % d) > d

\* round(total / count, AvgDigits) in units of 10^-AvgDigits, total >= 0: the
\* quotient is a double, round() rounds the double's exact value half to even
RoundedMeanNonNegative(total, count) ==
    LET num == total * Pow10(AvgDigits)
        q == num \div count
        r == num % count
        odd == 2 * q + 1
        g == Gcd(odd, Pow10(AvgDigits) \div Pow2(AvgDigits))
        d == (Pow10(AvgDigits) \div Pow2(AvgDigits)) \div g
    IN  IF 2 * r < count THEN q
        ELSE IF 2 * r > count THEN q + 1
        ELSE IF d = 1 THEN (IF q % 2 = 0 THEN q ELSE q + 1)
        ELSE IF QuotientRoundsUp(odd \div g, d) THEN q + 1 ELSE q

\* round(sum(scores) / len(scores), 4) in units of 10^-4
RoundedMean(total, count) ==
    IF total >= 0 THEN RoundedMeanNonNegative(total, count)
    ELSE -RoundedMeanNonNegative(-total, count)

\* faulty variant: dist[...] = instead of dist[...] +=
RECURSIVE DistributionLastOnly(_, _)
DistributionLastOnly(seq, dist) ==
    IF seq = <<>> THEN dist
    ELSE LET m == Get(Head(seq), "metrics", EmptyDict)
         IN  DistributionLastOnly(Tail(seq),
                [strong |-> Get(m, "total_strong_skills", 0),
                 medium |-> Get(m, "total_medium_skills", 0),
                 weak   |-> Get(m, "total_weak_skills", 0)])

\* the loop over ranked_candidates that fills dist
RECURSIVE Distribution(_, _)
Distribution(seq, dist) ==
    IF seq = <<>> THEN dist
    ELSE LET m == Get(Head(seq), "metrics", EmptyDict)
         IN  Distribution(Tail(seq),
                [strong |-> dist.strong + Get(m, "total_strong_skills", 0),
                 medium |-> dist.medium + Get(m, "total_medium_skills", 0),
                 weak   |-> dist.weak + Get(m, "total_weak_skills", 0)])

\* faulty variant: the summary sorts its input again before it reads the top candidate
build_leaderboard_summary_resorting(ranked_candidates) ==
    IF ranked_candidates = <<>>
    THEN [total_candidates   |-> 0,
          top_candidate      |-> None,
          average_score      |-> 0,
          score_distribution |-> [strong |-> 0, medium |-> 0, weak |-> 0]]
    ELSE [total_candidates   |-> Len(ranked_candidates),
          top_candidate      |-> Get(ranked_candidates[sorted_order(ranked_candidates)[1]],
                                     "name", None),
          average_score      |-> RoundedMean(SumScores(ranked_candidates),
                                             Len(ranked_candidates)),
          score_distribution |-> Distribution(ranked_candidates,
                                    [strong |-> 0, medium |-> 0, weak |-> 0])]

\* ranked_candidates: the dicts of the list, in list order (they are only read)
build_leaderboard_summary(ranked_candidates) ==
    IF ranked_candidates = <<>>
    THEN [total_candidates   |-> 0,
          top_candidate      |-> None,
          average_score      |-> 0,
          score_distribution |-> [strong |-> 0, medium |-> 0, weak |-> 0]]
    ELSE [total_candidates   |-> Len(ranked_candidates),
          top_candidate      |-> Get(ranked_candidates[1], "name", None),
          average_score      |-> RoundedMean(SumScores(ranked_candidates),
                                             Len(ranked_candidates)),
          score_distribution |-> Distribution(ranked_candidates,
                                    [strong |-> 0, medium |-> 0, weak |-> 0])]

----------------------------------------------------------------------------
(* Collaborators of Backend/Extraction.py and Backend/llm.py.  What each   *)
(* returns or raises for a resume is part of the resume: doc is the        *)
(* content of the uploaded file, and doc.exc the exception object the      *)
(* collaborator doc.raises raises.                                         *)

\* An exception object.  mro: the classes of type(exc).__mro__ by name, from
\* the class of the exception to BaseException (object left out).  args: the
\* arguments the exception was constructed with, each a str (for an exception
\* group the message alone).  exceptions: the number of exceptions an
\* exception group holds, 0 for any other exception.  own_str: <<text>> when
\* the first __str__ of the mro is not one of KeyError, BaseExceptionGroup,
\* OSError and BaseException (a class of a library with its own __str__,
\* SyntaxError, UnicodeEncodeError, ...), text being what it returns, and <<>>
\* otherwise.
Exc(mro, args, exceptions, own_str) ==
    [mro |-> mro, args |-> args, exceptions |-> exceptions, own_str |-> own_str]

\* type(exc).__mro__ of the built-in exception classes (Python 3.11)
BuiltinMro ==
    ("ArithmeticError" :>
        <<"ArithmeticError", "Exception", "BaseException">>)
    @@ ("AssertionError" :>
        <<"AssertionError", "Exception", "BaseException">>)
    @@ ("AttributeError" :>
        <<"AttributeError", "Exception", "BaseException">>)
    @@ ("BaseException" :>
        <<"BaseException">>)
    @@ ("BaseExceptionGroup" :>
        <<"BaseExceptionGroup", "BaseException">>)
    @@ ("BlockingIOError" :>
        <<"BlockingIOError", "OSError", "Exception", "BaseException">>)
    @@ ("BrokenPipeError" :>
        <<"BrokenPipeError", "ConnectionError", "OSError", "Exception", "BaseException">>)
    @@ ("BufferError" :>
        <<"BufferError", "Exception", "BaseException">>)
    @@ ("BytesWarning" :>
        <<"BytesWarning", "Warning", "Exception", "BaseException">>)
    @@ ("ChildProcessError" :>
        <<"ChildProcessError", "OSError", "Exception", "BaseException">>)
    @@ ("ConnectionAbortedError" :>
        <<"ConnectionAbortedError", "ConnectionError", "OSError", "Exception", "BaseException">>)
    @@ ("ConnectionError" :>
        <<"ConnectionError", "OSError", "Exception", "BaseException">>)
    @@ ("ConnectionRefusedError" :>
        <<"ConnectionRefusedError", "ConnectionError", "OSError", "Exception", "BaseException">>)
    @@ ("ConnectionResetError" :>
        <<"ConnectionResetError", "ConnectionError", "OSError", "Exception", "BaseException">>)
    @@ ("DeprecationWarning" :>
        <<"DeprecationWarning", "Warning", "Exception", "BaseException">>)
    @@ ("EOFError" :>
        <<"EOFError", "Exception", "BaseException">>)
    @@ ("EncodingWarning" :>
        <<"EncodingWarning", "Warning", "Exception", "BaseException">>)
    @@ ("Exception" :>
        <<"Exception", "BaseException">>)
    @@ ("ExceptionGroup" :>
        <<"ExceptionGroup", "BaseExceptionGroup", "Exception", "BaseException">>)
    @@ ("FileExistsError" :>
        <<"FileExistsError", "OSError", "Exception", "BaseException">>)
    @@ ("FileNotFoundError" :>
        <<"FileNotFoundError", "OSError", "Exception", "BaseException">>)
    @@ ("FloatingPointError" :>
        <<"FloatingPointError", "ArithmeticError", "Exception", "BaseException">>)
    @@ ("FutureWarning" :>
        <<"FutureWarning", "Warning", "Exception", "BaseException">>)
    @@ ("GeneratorExit" :>
        <<"GeneratorExit", "BaseException">>)
    @@ ("ImportError" :>
        <<"ImportError", "Exception", "BaseException">>)
    @@ ("ImportWarning" :>
        <<"ImportWarning", "Warning", "Exception", "BaseException">>)
    @@ ("IndentationError" :>
        <<"IndentationError", "SyntaxError", "Exception", "BaseException">>)
    @@ ("IndexError" :>
        <<"IndexError", "LookupError", "Exception", "BaseException">>)
    @@ ("InterruptedError" :>
        <<"InterruptedError", "OSError", "Exception", "BaseException">>)
    @@ ("IsADirectoryError" :>
        <<"IsADirectoryError", "OSError", "Exception", "BaseException">>)
    @@ ("KeyError" :>
        <<"KeyError", "LookupError", "Exception", "BaseException">>)
    @@ ("KeyboardInterrupt" :>
        <<"KeyboardInterrupt", "BaseException">>)
    @@ ("LookupError" :>
        <<"LookupError", "Exception", "BaseException">>)
    @@ ("MemoryError" :>
        <<"MemoryError", "Exception", "BaseException">>)
    @@ ("ModuleNotFoundError" :>
        <<"ModuleNotFoundError", "ImportError", "Exception", "BaseException">>)
    @@ ("NameError" :>
        <<"NameError", "Exception", "BaseException">>)
    @@ ("NotADirectoryError" :>
        <<"NotADirectoryError", "OSError", "Exception", "BaseException">>)
    @@ ("NotImplementedError" :>
        <<"NotImplementedError", "RuntimeError", "Exception", "BaseException">>)
    @@ ("OSError" :>
        <<"OSError", "Exception", "BaseException">>)
    @@ ("OverflowError" :>
        <<"OverflowError", "ArithmeticError", "Exception", "BaseException">>)
    @@ ("PendingDeprecationWarning" :>
        <<"PendingDeprecationWarning", "Warning", "Exception", "BaseException">>)
    @@ ("PermissionError" :>
        <<"PermissionError", "OSError", "Exception", "BaseException">>)
    @@ ("ProcessLookupError" :>
        <<"ProcessLookupError", "OSError", "Exception", "BaseException">>)
    @@ ("RecursionError" :>
        <<"RecursionError", "RuntimeError", "Exception", "BaseException">>)
    @@ ("ReferenceError" :>
        <<"ReferenceError", "Exception", "BaseException">>)
    @@ ("ResourceWarning" :>
        <<"ResourceWarning", "Warning", "Exception", "BaseException">>)
    @@ ("RuntimeError" :>
        <<"RuntimeError", "Exception", "BaseException">>)
    @@ ("RuntimeWarning" :>
        <<"RuntimeWarning", "Warning", "Exception", "BaseException">>)
    @@ ("StopAsyncIteration" :>
        <<"StopAsyncIteration", "Exception", "BaseException">>)
    @@ ("StopIteration" :>
        <<"StopIteration", "Exception", "BaseException">>)
    @@ ("SyntaxError" :>
        <<"SyntaxError", "Exception", "BaseException">>)
    @@ ("SyntaxWarning" :>
        <<"SyntaxWarning", "Warning", "Exception", "BaseException">>)
    @@ ("SystemError" :>
        <<"SystemError", "Exception", "BaseException">>)
    @@ ("SystemExit" :>
        <<"SystemExit", "BaseException">>)
    @@ ("TabError" :>
        <<"TabError", "IndentationError", "SyntaxError", "Exception", "BaseException">>)
    @@ ("TimeoutError" :>
        <<"TimeoutError", "OSError", "Exception", "BaseException">>)
    @@ ("TypeError" :>
        <<"TypeError", "Exception", "BaseException">>)
    @@ ("UnboundLocalError" :>
        <<"UnboundLocalError", "NameError", "Exception", "BaseException">>)
    @@ ("UnicodeDecodeError" :>
        <<"UnicodeDecodeError", "UnicodeError", "ValueError", "Exception", "BaseException">>)
    @@ ("UnicodeEncodeError" :>
        <<"UnicodeEncodeError", "UnicodeError", "ValueError", "Exception", "BaseException">>)
    @@ ("UnicodeError" :>
        <<"UnicodeError", "ValueError", "Exception", "BaseException">>)
    @@ ("UnicodeTranslateError" :>
        <<"UnicodeTranslateError", "UnicodeError", "ValueError", "Exception", "BaseException">>)
    @@ ("UnicodeWarning" :>
        <<"UnicodeWarning", "Warning", "Exception", "BaseException">>)
    @@ ("UserWarning" :>
        <<"UserWarning", "Warning", "Exception", "BaseException">>)
    @@ ("ValueError" :>
        <<"ValueError", "Exception", "BaseException">>)
    @@ ("Warning" :>
        <<"Warning", "Exception", "BaseException">>)
    @@ ("ZeroDivisionError" :>
        <<"ZeroDivisionError", "ArithmeticError", "Exception", "BaseException">>)

\* ValueError(*args)
ValueError(args) == Exc(BuiltinMro["ValueError"], args, 0, <<>>)

\* KeyError(*args)
KeyError(args) == Exc(BuiltinMro["KeyError"], args, 0, <<>>)

Return(v) == [raised |-> FALSE, val |-> v]

Raise(exc) == [raised |-> TRUE, exc |-> exc]

Step(doc, fn, v) ==
    IF doc.raises = fn THEN Raise(doc.exc) ELSE Return(v)

pdf_extract(file) == Step(file.content, "pdf_extract", file.content.text)

list_to_json(doc, raw_text) == Step(doc, "list_to_json", doc.structured)

extract_skill_from_resume(doc, structured) ==
    Step(doc, "extract_skill_from_resume", doc.skills)

generate_analysis_metrics(doc, skills) ==
    Step(doc, "generate_analysis_metrics", doc.metrics)

calculate_skill_strength(doc, metrics) ==
    Step(doc, "calculate_skill_strength", doc.scoring)

get_recruiter_note(doc, api_key, candidate_name, dom, skills, score) ==
    Step(doc, "get_recruiter_note", doc.note)

----------------------------------------------------------------------------
(* Backend/app.py: _process_single_resume *)

\* os.getenv("GEMINI_API_KEY")
GEMINI_KEY == "GEMINI_API_KEY"

\* "Empty PDF — could not extract text."
EmptyPdfMsg ==
    <<69, 109, 112, 116, 121, 32, 80, 68, 70, 32, 8212, 32, 99, 111, 117, 108,
      100, 32, 110, 111, 116, 32, 101, 120, 116, 114, 97, 99, 116, 32, 116, 101,
      120, 116, 46>>

\* "Processing failed: "
ProcessingFailed ==
    <<80, 114, 111, 99, 101, 115, 115, 105, 110, 103, 32, 102, 97, 105, 108,
      101, 100, 58, 32>>

\* the keys read from the scoring dict, as str
KeyText ==
    [skill_strength_score |-> <<115, 107, 105, 108, 108, 95, 115, 116, 114, 101,
                                110, 103, 116, 104, 95, 115, 99, 111, 114, 101>>,
     weighted_sum         |-> <<119, 101, 105, 103, 104, 116, 101, 100, 95, 115,
                                117, 109>>,
     net_skills           |-> <<110, 101, 116, 95, 115, 107, 105, 108, 108, 115>>]

\* d[key]: the value, or KeyError(key)
GetItem(d, key) ==
    IF key \in DOMAIN d THEN Return(d[key])
    ELSE Raise(KeyError(<<KeyText[key]>>))

\* isinstance(exc, class)
IsInstance(exc, class) == \E k \in 1..Len(exc.mro) : exc.mro[k] = class

\* faulty variant: except ValueError
ExceptValueErrorOnly(exc) == IsInstance(exc, "ValueError")

\* `except Exception` catches exc: its class derives from Exception
ExceptException(exc) == IsInstance(exc, "Exception")

\* str(n) for an int n >= 0
RECURSIVE Decimal(_)
Decimal(n) == IF n < 10 THEN <<48 + n>> ELSE Decimal(n \div 10) \o <<48 + (n % 10)>>

\* str(args) for a tuple of two or more str: "('a', 'b')"
TupleStr(args) ==
    LET Items[k \in 1..Len(args)] ==
            IF k = 1 THEN repr(args[1]) ELSE Items[k - 1] \o <<44, 32>> \o repr(args[k])
    IN  <<40>> \o Items[Len(args)] \o <<41>>

\* BaseException.__str__: "", the one argument, or str(args)
BaseExceptionStr(args) ==
    IF args = <<>> THEN <<>>
    ELSE IF Len(args) = 1 THEN args[1]
    ELSE TupleStr(args)

\* KeyError.__str__: the repr of the one argument
KeyErrorStr(args) ==
    IF Len(args) = 1 THEN repr(args[1]) ELSE BaseExceptionStr(args)

\* BaseExceptionGroup.__str__: "msg (n sub-exception[s])"
GroupStr(args, n) ==
    args[1] \o <<32, 40>> \o Decimal(n)
            \o <<32, 115, 117, 98, 45, 101, 120, 99, 101, 112, 116, 105, 111, 110>>
            \o (IF n > 1 THEN <<115>> ELSE <<>>) \o <<41>>

\* OSError.__str__ for (errno, strerror[, filename[, winerror[, filename2]]]):
\* "[Errno e] s", "[Errno e] s: 'f'", "[Errno e] s: 'f' -> 'g'"
OSErrorStr(args) ==
    IF Len(args) \notin 2..5 THEN BaseExceptionStr(args)
    ELSE LET head == <<91, 69, 114, 114, 110, 111, 32>> \o args[1] \o <<93, 32>>
                         \o args[2]
         IN  IF Len(args) = 2 THEN head
             ELSE IF Len(args) < 5 THEN head \o <<58, 32>> \o repr(args[3])
             ELSE head \o <<58, 32>> \o repr(args[3]) \o <<32, 45, 62, 32>>
                       \o repr(args[5])

\* the built-in classes whose __str__ is computed here
StrClasses == {"KeyError", "BaseExceptionGroup", "OSError", "BaseException"}

\* str(exc), also what f"{exc}" gives: the __str__ of the first class of the
\* mro that defines one
str_exc(exc) ==
    IF exc.own_str # <<>> THEN exc.own_str[1]
    ELSE LET first == CHOOSE k \in 1..Len(exc.mro) :
                          /\ exc.mro[k] \in StrClasses
                          /\ \A j \in 1..(k - 1) : exc.mro[j] \notin StrClasses
             class == exc.mro[first]
         IN  IF class = "KeyError" THEN KeyErrorStr(exc.args)
             ELSE IF class = "BaseExceptionGroup" THEN GroupStr(exc.args, exc.exceptions)
             ELSE IF class = "OSError" THEN OSErrorStr(exc.args)
             ELSE BaseExceptionStr(exc.args)

\* `not raw_text`
Falsy(raw_text) == raw_text = None \/ raw_text = <<>>

\* the dict the except clause returns; message is str(exc)
DegradedRecord(candidate_name, message) ==
    [name           |-> candidate_name,
     score          |-> 0,
     weighted_sum   |-> 0,
     net_skills     |-> 0,
     metrics        |-> EmptyDict,
     skills         |-> EmptyDict,
     recruiter_note |-> ProcessingFailed \o message,
     error          |-> message]

\* lines 53-54: raw_text, or the ValueError for an empty or absent text
CheckText(raw_text) ==
    IF Falsy(raw_text) THEN Raise(ValueError(<<EmptyPdfMsg>>))
    ELSE Return(raw_text)

\* the try block: Return(dict), or the Raise(...) of the first statement that raises
TryBlock(file, candidate_name, dom) ==
    LET extracted == pdf_extract(file)
    IN  IF extracted.raised THEN extracted ELSE
    LET raw_text == CheckText(extracted.val)
    IN  IF raw_text.raised THEN raw_text ELSE
    LET structured == list_to_json(file.content, raw_text.val)
    IN  IF structured.raised THEN structured ELSE
    LET skills == extract_skill_from_resume(file.content, structured.val)
    IN  IF skills.raised THEN skills ELSE
    LET metrics == generate_analysis_metrics(file.content, skills.val)
    IN  IF metrics.raised THEN metrics ELSE
    LET scoring == calculate_skill_strength(file.content, metrics.val)
    IN  IF scoring.raised THEN scoring ELSE
    LET score == GetItem(scoring.val, "skill_strength_score")
    IN  IF score.raised THEN score ELSE
    LET note == get_recruiter_note(file.content, GEMINI_KEY, candidate_name, dom,
                                   skills.val, score.val)
    IN  IF note.raised THEN note ELSE
    LET weighted_sum == GetItem(scoring.val, "weighted_sum")
    IN  IF weighted_sum.raised THEN weighted_sum ELSE
    LET net_skills == GetItem(scoring.val, "net_skills")
    IN  IF net_skills.raised THEN net_skills ELSE
        Return([name           |-> candidate_name,
                score          |-> score.val,
                weighted_sum   |-> weighted_sum.val,
                net_skills     |-> net_skills.val,
                metrics        |-> metrics.val,
                skills         |-> skills.val,
                recruiter_note |-> note.val])

\* except Exception as exc: the degraded dict; any other exception goes on
ExceptClause(body, candidate_name) ==
    IF body.raised /\ ExceptException(body.exc)
    THEN Return(DegradedRecord(candidate_name, str_exc(body.exc)))
    ELSE body

\* Return(dict), or Raise(...) for an exception that leaves the function
_process_single_resume(file, candidate_name, dom) ==
    ExceptClause(TryBlock(file, candidate_name, dom), candidate_name)

----------------------------------------------------------------------------
(* Backend/app.py: the leaderboard handler, one action per statement group *)

\* "Software Engineering"
DefaultDomain ==
    <<83, 111, 102, 116, 119, 97, 114, 101, 32, 69, 110, 103, 105, 110, 101,
      101, 114, 105, 110, 103>>

\* faulty variant: no validation of the filename
ValidFilesUnfiltered(fs) == fs

\* valid_files = [f for f in files if f and f.filename != ""]; a file object
\* is true when its filename is neither None nor ""
ValidFiles(fs) == SelectSeq(fs, LAMBDA f : f.filename # None /\ f.filename # <<>>)

\* the name of the file at 0-based position i of valid_files
DeriveName(i, file, ns) ==
    IF i < Len(ns) /\ strip(ns[i + 1]) # <<>>
    THEN strip(ns[i + 1])
    ELSE LET stem == splitext_root(file.filename)
         IN  title(replace(replace(stem, 95, 32), 45, 32))

\* the inputs of a request
Doc(text, raises, exc, metrics, scoring) ==
    [text       |-> text,
     raises     |-> raises,
     exc        |-> exc,
     structured |-> [skills_section |-> "text"],
     skills     |-> [Languages |-> <<"Python">>],
     metrics    |-> metrics,
     scoring    |-> scoring,
     note       |-> <<83, 111, 108, 105, 100, 32, 102, 105, 116, 46>>]  \* "Solid fit."

\* "resume text"
ResumeText == <<114, 101, 115, 117, 109, 101, 32, 116, 101, 120, 116>>

\* "quota exceeded"
QuotaMsg == <<113, 117, 111, 116, 97, 32, 101, 120, 99, 101, 101, 100, 101, 100>>

MetricsFull ==
    [total_strong_skills |-> 2, total_medium_skills |-> 1, total_weak_skills |-> 4]

MetricsPartial == [total_strong_skills |-> 1]

Scoring(score, weighted_sum, net_skills) ==
    [skill_strength_score |-> score, weighted_sum |-> weighted_sum,
     net_skills |-> net_skills]

\* the exc of a resume on which no collaborator raises
NoExc == Exc(<<>>, <<>>, 0, <<>>)

DocOk(metrics, scoring) == Doc(ResumeText, "none", NoExc, metrics, scoring)

DocRaises(fn, exc) ==
    Doc(ResumeText, fn, exc, MetricsFull, Scoring(25, 6, 7))

DocEmptyText == Doc(<<>>, "none", NoExc, MetricsFull, Scoring(25, 6, 7))

DocNoText == Doc(None, "none", NoExc, MetricsFull, Scoring(25, 6, 7))

BatchDocs ==
    { DocEmptyText,
      DocRaises("get_recruiter_note", Exc(BuiltinMro["RuntimeError"], <<QuotaMsg>>, 0, <<>>)),
      DocOk(EmptyDict, Scoring(0, 0, 0)),
      DocOk(MetricsFull, Scoring(25, 6, 7)) }

\* a form part with an empty filename: nothing was uploaded
InvalidFile == [filename |-> <<>>, content |-> DocEmptyText]

\* "al_lee-r\u00F3y.pdf"
UploadName == <<97, 108, 95, 108, 101, 101, 45, 114, 243, 121, 46, 112, 100, 102>>

BatchFiles ==
    {InvalidFile} \cup {[filename |-> UploadName, content |-> d] : d \in BatchDocs}

\* "\u00A0Zed ", "amy", "  "
BatchNames == { <<160, 90, 101, 100, 32>>, <<97, 109, 121>>, <<32, 32>> }

\* the domain field: absent, or " Data "
BatchDomains == { None, <<32, 68, 97, 116, 97, 32>> }

SeqsUpTo(S, n) == UNION {[1..k -> S] : k \in 0..n}

Init ==
    /\ pc = "idle"
    /\ files = <<>>
    /\ names = <<>>
    /\ domain = <<>>
    /\ valid_files = <<>>
    /\ candidates = <<>>
    /\ ranked = <<>>
    /\ summary = <<>>
    /\ response = <<>>
    /\ process_log = <<>>
    /\ rank_log = <<>>
    /\ arg = <<>>
    /\ ret = <<>>
    /\ op = "none"

\* lines 102-104: the request arrives
Receive ==
    /\ pc = "idle"
    /\ \E fs \in SeqsUpTo(BatchFiles, MaxFiles), ns \in SeqsUpTo(BatchNames, MaxNames),
          d \in BatchDomains :
            /\ files' = fs
            /\ names' = ns
            /\ domain' = strip(IF d = None THEN DefaultDomain ELSE d)
    /\ pc' = "validate"
    /\ UNCHANGED <<valid_files, candidates, ranked, summary, response,
                   process_log, rank_log, call_vars>>

\* lines 107-109: validation, and the 400 answer when no file is valid
Validate ==
    /\ pc = "validate"
    /\ valid_files' = ValidFiles(files)
    /\ IF ValidFiles(files) = <<>>
       THEN /\ response' = <<[status |-> 400,
                              body |-> [error |-> "No PDF files provided."]]>>
            /\ pc' = "done"
       ELSE /\ response' = response
            /\ pc' = "loop"
    /\ UNCHANGED <<files, names, domain, candidates, ranked, summary,
                   process_log, rank_log, call_vars>>

\* faulty variant: a failed candidate ends the loop, the rest of the batch is skipped
ProcessNextAbortOnFailure ==
    /\ pc = "loop"
    /\ LET i    == Len(process_log)
           file == valid_files[i + 1]
           name == DeriveName(i, file, names)
           res  == _process_single_resume(file, name, domain)
       IN  /\ process_log' = Append(process_log, i + 1)
           /\ response' = response
           /\ candidates' = Append(candidates, res.val)
           /\ pc' = IF i + 1 = Len(valid_files) \/ "error" \in DOMAIN res.val
                    THEN "rank" ELSE "loop"
    /\ UNCHANGED <<files, names, domain, valid_files, ranked, summary,
                   rank_log, call_vars>>

\* faulty variant: the list is ranked after every resume, not once at the end
ProcessNextRankEarly ==
    /\ pc = "loop"
    /\ LET i    == Len(process_log)
           file == valid_files[i + 1]
           name == DeriveName(i, file, names)
           res  == _process_single_resume(file, name, domain)
           cs   == Append(candidates, res.val)
           r    == get_domain_leaderboard(cs, [k \in 1..Len(cs) |-> k])
       IN  /\ process_log' = Append(process_log, i + 1)
           /\ response' = response
           /\ candidates' = r.objects
           /\ rank_log' = rank_log \o RankWrites(r.ranked)
           /\ pc' = IF i + 1 = Len(valid_files) THEN "rank" ELSE "loop"
    /\ UNCHANGED <<files, names, domain, valid_files, ranked, summary, call_vars>>

\* lines 113-121: one iteration of the loop over valid_files
ProcessNext ==
    /\ pc = "loop"
    /\ LET i    == Len(process_log)
           file == valid_files[i + 1]
           name == DeriveName(i, file, names)
           res  == _process_single_resume(file, name, domain)
       IN  /\ process_log' = Append(process_log, i + 1)
           /\ IF res.raised
              THEN \* the exception leaves the handler, which returns nothing
                   /\ response' = response
                   /\ candidates' = candidates
                   /\ pc' = "raised"
              ELSE /\ response' = response
                   /\ candidates' = Append(candidates, res.val)
                   /\ pc' = IF i + 1 = Len(valid_files) THEN "rank" ELSE "loop"
    /\ UNCHANGED <<files, names, domain, valid_files, ranked, summary,
                   rank_log, call_vars>>

\* line 124: ranked = get_domain_leaderboard(candidates)
Rank ==
    /\ pc = "rank"
    /\ LET r == get_domain_leaderboard(candidates, [k \in 1..Len(candidates) |-> k])
       IN  /\ ranked' = <<r.ranked>>
           /\ candidates' = r.objects
           /\ rank_log' = rank_log \o RankWrites(r.ranked)
    /\ pc' = "summarise"
    /\ UNCHANGED <<files, names, domain, valid_files, summary, response,
                   process_log, call_vars>>

\* line 125: summary = build_leaderboard_summary(ranked)
Summarise ==
    /\ pc = "summarise"
    /\ summary' = <<build_leaderboard_summary(Deref(candidates, ranked[1]))>>
    /\ pc' = "respond"
    /\ UNCHANGED <<files, names, domain, valid_files, candidates, ranked,
                   response, process_log, rank_log, call_vars>>

\* lines 127-133: the 200 answer
Respond ==
    /\ pc = "respond"
    /\ response' = <<[status |-> 200,
                      body |-> [status           |-> "success",
                                domain           |-> domain,
                                total_candidates |-> Len(ranked[1]),
                                summary          |-> summary[1],
                                leaderboard      |-> Deref(candidates, ranked[1])]]>>
    /\ pc' = "done"
    /\ UNCHANGED <<files, names, domain, valid_files, candidates, ranked,
                   summary, process_log, rank_log, call_vars>>

Next == Receive \/ Validate \/ ProcessNext \/ Rank \/ Summarise \/ Respond

Spec == Init /\ [][Next]_vars

----------------------------------------------------------------------------
(* _process_single_resume called on one resume, for every outcome of every *)
(* collaborator                                                            *)

\* "o'neil"
QuotedArg == <<111, 39, 110, 101, 105, 108>>

\* "28"
ErrnoText == <<50, 56>>

\* zoneinfo.ZoneInfoNotFoundError.__mro__
ZoneInfoNotFoundMro ==
    <<"ZoneInfoNotFoundError", "KeyError", "LookupError", "Exception", "BaseException">>

\* urllib.error.URLError.__mro__; the class defines __str__
URLErrorMro == <<"URLError", "OSError", "Exception", "BaseException">>

\* "<urlopen error quota exceeded>"
URLErrorText ==
    <<60, 117, 114, 108, 111, 112, 101, 110, 32, 101, 114, 114, 111, 114, 32>>
    \o QuotaMsg \o <<62>>

\* asyncio.CancelledError.__mro__
CancelledErrorMro == <<"CancelledError", "BaseException">>

\* the __mro__ of a library class declared as class Abort(BaseException)
AbortMro == <<"Abort", "BaseException">>

AllDocs ==
    BatchDocs \cup
    { DocNoText,
      DocOk(MetricsPartial, Scoring(10, 2, 1)),
      DocOk(MetricsFull, [weighted_sum |-> 6, net_skills |-> 7]),
      DocOk(MetricsFull, [skill_strength_score |-> 25, net_skills |-> 7]),
      DocOk(MetricsFull, [skill_strength_score |-> 25, weighted_sum |-> 6]),
      DocRaises("pdf_extract", Exc(BuiltinMro["OSError"], <<QuotaMsg>>, 0, <<>>)),
      DocRaises("pdf_extract", Exc(BuiltinMro["FileNotFoundError"], <<ErrnoText, QuotaMsg>>, 0, <<>>)),
      DocRaises("pdf_extract",
                Exc(BuiltinMro["PermissionError"], <<ErrnoText, QuotaMsg, QuotedArg>>, 0, <<>>)),
      DocRaises("pdf_extract",
                Exc(BuiltinMro["OSError"], <<ErrnoText, QuotaMsg, QuotedArg, <<>>, UploadName>>, 0, <<>>)),
      DocRaises("list_to_json", ValueError(<<QuotaMsg>>)),
      DocRaises("list_to_json", Exc(BuiltinMro["AttributeError"], <<>>, 0, <<>>)),
      DocRaises("list_to_json", Exc(BuiltinMro["UnicodeError"], <<QuotaMsg, QuotedArg>>, 0, <<>>)),
      DocRaises("extract_skill_from_resume", KeyError(<<QuotaMsg>>)),
      DocRaises("extract_skill_from_resume", KeyError(<<QuotedArg>>)),
      DocRaises("extract_skill_from_resume", KeyError(<<>>)),
      DocRaises("extract_skill_from_resume", KeyError(<<QuotaMsg, QuotedArg>>)),
      DocRaises("extract_skill_from_resume",
                Exc(ZoneInfoNotFoundMro, <<QuotaMsg>>, 0, <<>>)),
      DocRaises("generate_analysis_metrics", Exc(BuiltinMro["TypeError"], <<QuotaMsg>>, 0, <<>>)),
      DocRaises("generate_analysis_metrics", Exc(BuiltinMro["ZeroDivisionError"], <<QuotaMsg>>, 0, <<>>)),
      DocRaises("calculate_skill_strength", Exc(BuiltinMro["IndexError"], <<QuotaMsg>>, 0, <<>>)),
      DocRaises("calculate_skill_strength", Exc(BuiltinMro["Exception"], <<QuotaMsg>>, 0, <<>>)),
      DocRaises("get_recruiter_note", Exc(BuiltinMro["ExceptionGroup"], <<QuotaMsg>>, 1, <<>>)),
      DocRaises("get_recruiter_note", Exc(BuiltinMro["ExceptionGroup"], <<QuotaMsg>>, 12, <<>>)),
      DocRaises("get_recruiter_note", Exc(URLErrorMro, <<QuotaMsg>>, 0, <<URLErrorText>>)),
      DocRaises("get_recruiter_note", Exc(BuiltinMro["TimeoutError"], <<QuotaMsg>>, 0, <<>>)),
      DocRaises("pdf_extract", Exc(BuiltinMro["KeyboardInterrupt"], <<>>, 0, <<>>)),
      DocRaises("list_to_json", Exc(BuiltinMro["SystemExit"], <<QuotaMsg>>, 0, <<>>)),
      DocRaises("extract_skill_from_resume", Exc(AbortMro, <<QuotaMsg>>, 0, <<>>)),
      DocRaises("generate_analysis_metrics",
                Exc(BuiltinMro["GeneratorExit"], <<>>, 0, <<>>)),
      DocRaises("calculate_skill_strength",
                Exc(BuiltinMro["BaseExceptionGroup"], <<QuotaMsg>>, 2, <<>>)),
      DocRaises("get_recruiter_note", Exc(CancelledErrorMro, <<>>, 0, <<>>)),
      DocRaises("get_recruiter_note", Exc(BuiltinMro["KeyboardInterrupt"], <<>>, 0, <<>>)),
      Doc(<<>>, "get_recruiter_note", Exc(BuiltinMro["KeyboardInterrupt"], <<>>, 0, <<>>),
          MetricsFull, Scoring(25, 6, 7)),
      Doc(ResumeText, "get_recruiter_note", Exc(CancelledErrorMro, <<>>, 0, <<>>),
          MetricsFull, [weighted_sum |-> 6, net_skills |-> 7]),
      Doc(ResumeText, "get_recruiter_note", Exc(CancelledErrorMro, <<>>, 0, <<>>),
          MetricsFull, [skill_strength_score |-> 25, net_skills |-> 7]),
      Doc(ResumeText, "get_recruiter_note", Exc(BuiltinMro["RuntimeError"], <<QuotaMsg>>, 0, <<>>),
          MetricsFull, [weighted_sum |-> 6, net_skills |-> 7]),
      Doc(ResumeText, "get_recruiter_note", Exc(BuiltinMro["RuntimeError"], <<QuotaMsg>>, 0, <<>>),
          MetricsFull, [skill_strength_score |-> 25, net_skills |-> 7]) }

Alice == <<65, 108, 105, 99, 101>>
Bob == <<66, 111, 98>>
Zed == <<90, 101, 100>>
amy == <<97, 109, 121>>

ProcessArgs ==
    [file           : {[filename |-> UploadName, content |-> d] : d \in AllDocs},
     candidate_name : {Alice, Bob, Zed, amy, <<>>},
     domain         : {DefaultDomain, <<68, 97, 116, 97>>}]

HandlerIdle ==
    /\ pc = "idle"
    /\ files = <<>>
    /\ names = <<>>
    /\ domain = <<>>
    /\ valid_files = <<>>
    /\ candidates = <<>>
    /\ ranked = <<>>
    /\ summary = <<>>
    /\ response = <<>>
    /\ process_log = <<>>
    /\ rank_log = <<>>

InitProcess ==
    /\ HandlerIdle
    /\ arg \in ProcessArgs
    /\ ret = <<>>
    /\ op = "none"

CallProcess ==
    /\ op = "none"
    /\ ret' = <<_process_single_resume(arg.file, arg.candidate_name, arg.domain)>>
    /\ op' = "_process_single_resume"
    /\ UNCHANGED <<arg, handler_vars>>

NextProcess == CallProcess

SpecProcess == InitProcess /\ [][NextProcess]_vars

----------------------------------------------------------------------------
(* get_domain_leaderboard and build_leaderboard_summary called on a list   *)
(* of candidate dicts, keys possibly missing, one dict possibly at several *)
(* places of the list                                                      *)

RankNames == {Alice, Bob, Zed, amy}

RankScores == {0, 10, 25}

RankPool ==
    {[name |-> n, score |-> s] : n \in RankNames, s \in RankScores}
    \cup {[name |-> n] : n \in RankNames}
    \cup {[score |-> s] : s \in RankScores}
    \cup {EmptyDict}

SummaryMetrics == {EmptyDict, MetricsPartial, MetricsFull}

SummaryPool ==
    {[name |-> n, score |-> 25, metrics |-> m] : n \in {Alice, Bob}, m \in SummaryMetrics}
    \cup {[name |-> n, metrics |-> m] : n \in {Alice, Bob}, m \in SummaryMetrics}
    \cup {[score |-> 25, metrics |-> m] : m \in SummaryMetrics}
    \cup {[name |-> n, score |-> 25] : n \in {Alice, Bob}}
    \cup {[score |-> 10]}

\* the lists of n places over dicts 1, 2, ...: a place holds a dict met before
\* or the next new one
ListShapes(n) ==
    {l \in [1..n -> 1..n] :
        \A k \in 1..n : \A o \in 1..(l[k] - 1) : \E j \in 1..(k - 1) : l[j] = o}

\* a list of at most MaxLen places and the dicts it refers to
InitRanking ==
    /\ HandlerIdle
    /\ \E n \in 0..MaxLen : \E l \in ListShapes(n) : \E pool \in {RankPool, SummaryPool} :
          \E o \in [{l[k] : k \in 1..n} -> pool] :
              arg = [objects |-> o, list |-> l]
    /\ ret = <<>>
    /\ op = "none"

CallRank ==
    /\ op = "none"
    /\ ret' = <<get_domain_leaderboard(arg.objects, arg.list)>>
    /\ op' = "get_domain_leaderboard"
    /\ UNCHANGED <<arg, handler_vars>>

CallSummary ==
    /\ op = "none"
    /\ ret' = <<build_leaderboard_summary(Deref(arg.objects, arg.list))>>
    /\ op' = "build_leaderboard_summary"
    /\ UNCHANGED <<arg, handler_vars>>

NextRanking == CallRank \/ CallSummary

SpecRanking == InitRanking /\ [][NextRanking]_vars

----------------------------------------------------------------------------
(* Properties *)

Range(seq) == {seq[k] : k \in 1..Len(seq)}

StartsWith(s, prefix) ==
    Len(s) >= Len(prefix) /\ SubSeq(s, 1, Len(prefix)) = prefix

WithoutRank(c) == [k \in DOMAIN c \ {"rank"} |-> c[k]]

RecordFields ==
    {"name", "score", "weighted_sum", "net_skills", "metrics", "skills",
     "recruiter_note"}

NoText(doc) == doc.text = None \/ doc.text = <<>>

ScoringKeys == {"skill_strength_score", "weighted_sum", "net_skills"}

\* a resume fails when its text is empty or absent, a collaborator raises, or
\* the scoring lacks a value the record needs
Fails(doc) ==
    \/ doc.raises # "none"
    \/ NoText(doc)
    \/ ~(ScoringKeys \subseteq DOMAIN doc.scoring)

\* the message of the first failure of a failing resume, in pipeline order
FailureMessage(doc) ==
    LET raised == str_exc(doc.exc)
        Missing(key) == <<39>> \o KeyText[key] \o <<39>>
    IN  IF doc.raises = "pdf_extract" THEN raised
        ELSE IF NoText(doc) THEN EmptyPdfMsg
        ELSE IF doc.raises \in {"list_to_json", "extract_skill_from_resume",
                                "generate_analysis_metrics", "calculate_skill_strength"}
             THEN raised
        ELSE IF "skill_strength_score" \notin DOMAIN doc.scoring
             THEN Missing("skill_strength_score")
        ELSE IF doc.raises = "get_recruiter_note" THEN raised
        ELSE IF "weighted_sum" \notin DOMAIN doc.scoring THEN Missing("weighted_sum")
        ELSE Missing("net_skills")

\* the failure defaults of a degraded record
IsDegraded(c, candidate_name) ==
    /\ DOMAIN c = RecordFields \cup {"error"}
    /\ c.name = candidate_name
    /\ c.score = 0
    /\ c.weighted_sum = 0
    /\ c.net_skills = 0
    /\ c.metrics = EmptyDict
    /\ c.skills = EmptyDict
    /\ StartsWith(c.recruiter_note, ProcessingFailed)

\* the first failure of the resume, in pipeline order, is a raise of the
\* collaborator doc.raises
CollaboratorRaisesFirst(doc) ==
    \/ doc.raises = "pdf_extract"
    \/ /\ ~NoText(doc)
       /\ doc.raises \in {"list_to_json", "extract_skill_from_resume",
                          "generate_analysis_metrics", "calculate_skill_strength"}
    \/ /\ ~NoText(doc)
       /\ doc.raises = "get_recruiter_note"
       /\ "skill_strength_score" \in DOMAIN doc.scoring

\* the first failure of the resume is an exception whose class does not
\* derive from Exception
NotAnExceptionFirst(doc) ==
    CollaboratorRaisesFirst(doc) /\ "Exception" \notin Range(doc.exc.mro)

\* what the call returns for a resume: the degraded record (the failure
\* defaults, a note beginning "Processing failed", an error field holding the
\* failure message) exactly when a step failed, and otherwise a record with
\* the seven fields and no error field
ReturnsRecord(c, doc, candidate_name) ==
    /\ ("error" \in DOMAIN c) <=> Fails(doc)
    /\ IF Fails(doc)
       THEN /\ IsDegraded(c, candidate_name)
            /\ c.error = FailureMessage(doc)
            /\ c.recruiter_note = ProcessingFailed \o c.error
       ELSE /\ DOMAIN c = RecordFields
            /\ c.name = candidate_name
            /\ c.score = doc.scoring["skill_strength_score"]
            /\ c.weighted_sum = doc.scoring["weighted_sum"]
            /\ c.net_skills = doc.scoring["net_skills"]
            /\ c.metrics = doc.metrics
            /\ c.skills = doc.skills
            /\ c.recruiter_note = doc.note

RecordAlone(file, candidate_name) ==
    LET doc == file.content
    IN  IF Fails(doc)
        THEN DegradedRecord(candidate_name, FailureMessage(doc))
        ELSE [name           |-> candidate_name,
              score          |-> doc.scoring["skill_strength_score"],
              weighted_sum   |-> doc.scoring["weighted_sum"],
              net_skills     |-> doc.scoring["net_skills"],
              metrics        |-> doc.metrics,
              skills         |-> doc.skills,
              recruiter_note |-> doc.note]

RankedNames(r) == [j \in 1..Len(r) |-> Get(r[j], "name", <<>>)]

\* the dicts of the list handed to the function called, in list order
ArgRecords == Deref(arg.objects, arg.list)

\* the dicts of the list get_domain_leaderboard returned, as they are after the call
RetRecords == Deref(ret[1].objects, ret[1].ranked)

\* every place of the list holds a dict of its own
DistinctRecords(list) == Cardinality(Range(list)) = Len(list)

\* C3: the ranks of the list get_domain_leaderboard returns for a list of N
\* records are 1, 2, ..., N in list order, equal scores included, and the
\* empty list gives the empty list.
C3_RanksArePositions ==
    op = "get_domain_leaderboard" =>
        /\ Len(ret[1].ranked) = Len(arg.list)
        /\ DistinctRecords(arg.list) =>
              \A j \in 1..Len(RetRecords) : RetRecords[j].rank = j
        /\ arg.list = <<>> => ret[1].ranked = <<>>

C3_Witness ==
    /\ op = "get_domain_leaderboard"
    /\ arg.list = <<1, 2, 3>>
    /\ \A k \in 1..3 : Get(arg.objects[k], "score", 0) = 25
    /\ arg.objects[1] = arg.objects[2]
    /\ RetRecords[3].rank = 3

\* C4: in the returned list an earlier record has a greater score than the
\* next one, or the same score and a lower-cased name that is not greater
\* (missing score 0, missing name ""); scores [10, 25, 25] of Bob, Alice,
\* Zed give Alice 1, Zed 2, Bob 3.
C4_SortOrder ==
    op = "get_domain_leaderboard" =>
        /\ \A j \in 1..(Len(RetRecords) - 1) :
              LET a == RetRecords[j]
                  b == RetRecords[j + 1]
                  an == lower(Get(a, "name", <<>>))
                  bn == lower(Get(b, "name", <<>>))
              IN  \/ Get(a, "score", 0) > Get(b, "score", 0)
                  \/ /\ Get(a, "score", 0) = Get(b, "score", 0)
                     /\ (an = bn \/ StrLess(an, bn))
        /\ (/\ arg.list = <<1, 2, 3>>
            /\ arg.objects = <<[name |-> Bob, score |-> 10], [name |-> Alice, score |-> 25],
                               [name |-> Zed, score |-> 25]>>)
           => RetRecords = <<[name |-> Alice, score |-> 25, rank |-> 1],
                             [name |-> Zed, score |-> 25, rank |-> 2],
                             [name |-> Bob, score |-> 10, rank |-> 3]>>

C4_Witness ==
    /\ op = "get_domain_leaderboard"
    /\ arg.list = <<1, 2, 3>>
    /\ arg.objects = <<[name |-> Zed, score |-> 25], [name |-> amy, score |-> 25],
                       [name |-> Bob]>>
    /\ RankedNames(RetRecords) = <<amy, Zed, Bob>>

\* the number of positions of seq that hold c
Count(seq, c) == Cardinality({k \in 1..Len(seq) : seq[k] = c})

SameRecords(r, cands) ==
    /\ Len(r) = Len(cands)
    /\ \A c \in Range(cands) :
          Count([j \in 1..Len(r) |-> WithoutRank(r[j])], c) = Count(cands, c)

\* C5: ranking returns as many records as the candidate list holds, the same
\* records (none dropped, each once) with nothing changed but rank, and the
\* answer carries that list.
C5_RankingPreservesRecords ==
    [][ /\ pc = "rank" =>
              /\ Len(ranked'[1]) = Len(candidates)
              /\ Range(ranked'[1]) = 1..Len(candidates)
              /\ Len(candidates') = Len(candidates)
              /\ \A k \in 1..Len(candidates) : WithoutRank(candidates'[k]) = candidates[k]
              /\ SameRecords(Deref(candidates', ranked'[1]), candidates)
        /\ pc = "respond" =>
              /\ response'[1].body.leaderboard = Deref(candidates, ranked[1])
              /\ response'[1].body.total_candidates = Len(candidates)
              /\ SameRecords(response'[1].body.leaderboard,
                             [k \in 1..Len(candidates) |-> WithoutRank(candidates[k])])
      ]_vars

C5_Witness ==
    /\ pc = "done"
    /\ Len(candidates) = 3
    /\ response[1].status = 200
    /\ ranked[1] = <<2, 3, 1>>
    /\ candidates[1].rank = 3
    /\ candidates[2].rank = 1
    /\ candidates[1].name = candidates[3].name

NothingProcessed ==
    /\ process_log = <<>>
    /\ candidates = <<>>
    /\ ranked = <<>>
    /\ summary = <<>>
    /\ rank_log = <<>>

\* C6: a request without a valid file is answered with the input-validation
\* error before any processing: no resume processed, no record created, no
\* ranking, no summary.
C6_RejectedBeforeProcessing ==
    /\ pc \in {"idle", "validate"} => NothingProcessed /\ response = <<>>
    /\ (pc \notin {"idle", "validate"} /\ \A k \in 1..Len(files) : files[k].filename = <<>>) =>
            /\ pc = "done"
            /\ response = <<[status |-> 400, body |-> [error |-> "No PDF files provided."]]>>
            /\ valid_files = <<>>
            /\ NothingProcessed

C6_Witness ==
    /\ pc = "done"
    /\ Len(files) = 2
    /\ \A k \in 1..Len(files) : files[k].filename = <<>>
    /\ response[1].status = 400

HasRank(c) == "rank" \in DOMAIN c

\* C7: no record carries a rank before every valid file is processed and
\* collected; ranking runs once over the complete list and writes each
\* record's rank once; the summary exists only after ranking and is the
\* summary of the ranked list.
C7_RankAfterJoin ==
    /\ (\E k \in 1..Len(candidates) : HasRank(candidates[k])) =>
            /\ pc \in {"summarise", "respond", "done"}
            /\ Len(process_log) = Len(valid_files)
            /\ Len(candidates) = Len(valid_files)
            /\ ranked # <<>>
    /\ rank_log # <<>> => ranked # <<>>
    /\ ranked # <<>> =>
            /\ Len(ranked[1]) = Len(valid_files)
            /\ Len(rank_log) = Len(candidates)
            /\ \A k \in 1..Len(candidates) :
                  /\ Cardinality({w \in 1..Len(rank_log) : rank_log[w][1] = k}) = 1
                  /\ HasRank(candidates[k])
                  /\ <<k, candidates[k].rank>> \in Range(rank_log)
    /\ summary # <<>> =>
            /\ ranked # <<>>
            /\ summary[1].total_candidates = Len(ranked[1])
            /\ summary[1].top_candidate = candidates[ranked[1][1]].name
            /\ candidates[ranked[1][1]].rank = 1
            /\ summary[1] = build_leaderboard_summary(Deref(candidates, ranked[1]))

C7_Witness ==
    /\ pc = "respond"
    /\ Len(valid_files) = 3
    /\ Len(rank_log) = 3
    /\ summary # <<>>
    /\ candidates[3].rank = 1

\* C8: the summary of the empty list is total 0, top candidate null,
\* average 0.0 and zero counts; the summary of a non-empty list has the
\* list's length as total and the name of its first element as top
\* candidate, whatever the order of the list.
C8_SummaryEnds ==
    op = "build_leaderboard_summary" =>
        IF arg.list = <<>>
        THEN ret[1] = [total_candidates   |-> 0,
                       top_candidate      |-> None,
                       average_score      |-> 0,
                       score_distribution |-> [strong |-> 0, medium |-> 0, weak |-> 0]]
        ELSE /\ ret[1].total_candidates = Len(arg.list)
             /\ ret[1].top_candidate =
                    IF "name" \in DOMAIN ArgRecords[1] THEN ArgRecords[1].name ELSE None

C8_Witness ==
    /\ op = "build_leaderboard_summary"
    /\ Len(arg.list) = 2
    /\ ArgRecords[1] = [name |-> Bob, metrics |-> MetricsFull]
    /\ Get(ArgRecords[2], "score", 0) = 25
    /\ Get(ArgRecords[2], "name", <<>>) = Alice
    /\ ret[1].top_candidate = Bob

\* the count of one tier of one candidate, 0 when metrics or the key is missing
TierCount(c, key) ==
    IF "metrics" \in DOMAIN c /\ key \in DOMAIN c.metrics THEN c.metrics[key] ELSE 0

RECURSIVE SumTier(_, _, _)
SumTier(seq, idxs, key) ==
    IF idxs = {} THEN 0
    ELSE LET k == CHOOSE x \in idxs : TRUE
         IN  TierCount(seq[k], key) + SumTier(seq, idxs \ {k}, key)

\* C9: each count of score_distribution is the sum over the candidates of
\* that candidate's tier count, missing metrics or key counting 0, and every
\* ordering of the list gives the same counts.
C9_DistributionIsSum ==
    op = "build_leaderboard_summary" =>
        LET dist == ret[1].score_distribution
            idxs == 1..Len(arg.list)
        IN  /\ dist.strong = SumTier(ArgRecords, idxs, "total_strong_skills")
            /\ dist.medium = SumTier(ArgRecords, idxs, "total_medium_skills")
            /\ dist.weak = SumTier(ArgRecords, idxs, "total_weak_skills")
            /\ \A p \in Permutations(idxs) :
                  build_leaderboard_summary([k \in idxs |-> ArgRecords[p[k]]]).score_distribution
                    = dist

C9_Witness ==
    /\ op = "build_leaderboard_summary"
    /\ Len(arg.list) = 3
    /\ Get(ArgRecords[1], "metrics", EmptyDict) = MetricsPartial
    /\ "metrics" \notin DOMAIN ArgRecords[2]
    /\ Get(ArgRecords[3], "metrics", EmptyDict) = MetricsFull
    /\ ret[1].score_distribution = [strong |-> 3, medium |-> 1, weak |-> 4]

\* C10: a failed candidate is in the leaderboard with its position as rank,
\* below every candidate with a positive score, and placed among the
\* candidates of score 0 by the lower-cased name alone.
C10_FailedRankedAtBottom ==
    \A k \in 1..Len(process_log) :
        (pc \in {"summarise", "respond", "done"} /\ Fails(valid_files[k].content)) =>
            \E j \in 1..Len(ranked[1]) :
                LET r == Deref(candidates, ranked[1])
                    LowerName(q) == lower(r[q].name)
                IN  /\ ranked[1][j] = k
                    /\ "error" \in DOMAIN r[j]
                    /\ r[j].rank = j
                    /\ \A q \in 1..Len(r) : r[q].score > 0 => q < j
                    /\ \A q \in 1..Len(r) :
                          r[q].score = 0 =>
                              /\ q < j => (LowerName(q) = LowerName(j)
                                           \/ StrLess(LowerName(q), LowerName(j)))
                              /\ q > j => (LowerName(q) = LowerName(j)
                                           \/ StrLess(LowerName(j), LowerName(q)))

C10_Witness ==
    /\ pc = "done"
    /\ Len(valid_files) = 3
    /\ ranked # <<>>
    /\ candidates[ranked[1][1]].score = 25
    /\ "error" \in DOMAIN candidates[ranked[1][2]]
    /\ "error" \notin DOMAIN candidates[ranked[1][3]]
    /\ candidates[ranked[1][3]].score = 0
    /\ "error" \in DOMAIN candidates[1]

============================================================================
